---- MODULE Spec2Model ----
(***************************************************************************)
(* Model of the KarokeProcessor audio transposition pipeline:              *)
(*   backend/src/routes/audio.js          router.post('/transpose'),       *)
(*                                        router.post('/analyze')          *)
(*   backend/src/services/audioProcessor.js  AudioProcessor                *)
(* Spec: concurrent transpose requests run against one uploads directory;  *)
(* each request advances from one await of the handler to the next.        *)
(* KeySpec: calls of calculateNewKey, single, chained and combined.        *)
(* AnalyzeSpec: one analyze request over the stored files.                 *)
(* NameSpec: the output paths derived for two transpose requests.          *)
(* PageSpec: frontend/src/pages/Transpose.js, one transposition shown and  *)
(* auto-saved by the Transpose page.                                       *)
(* PlayerSpec: AudioPlayerService of frontend/src/services/                *)
(* localStorageService.js, its calls suspended at their awaits.            *)
(* PlaylistSpec: PlaylistService of the same file, concurrent edits of one *)
(* stored playlist.                                                        *)
(* DriveSpec: backend/src/routes/googleDrive.js, clients of the shared     *)
(* GoogleDriveService instance.                                            *)
(***************************************************************************)
EXTENDS Integers, Sequences, FiniteSets, Bags, TLC

\* ------------------------------------------------------------------ bounds

\* Number of transpose requests that may be in flight together.
MaxReqs == 2
\* Integer semitone values a client may send: -MaxSemitoneInput..MaxSemitoneInput.
MaxSemitoneInput == 13

Reqs == 1..MaxReqs

\* --------------------------------------------------------- JavaScript values

\* Optional values: <<>> is null/undefined/absent, <<x>> is x.
None == <<>>
Some(x) == <<x>>

\* The JSON value of the semitones field. v is meaningful for numbers only.
JsNum(n) == [t |-> "number", v |-> n]
JsUndefined == [t |-> "undefined", v |-> 0]
JsNull == [t |-> "null", v |-> 0]
\* A non-numeric string such as "abc".
JsStr == [t |-> "string", v |-> 0]

\* ToNumber(x) is NaN for undefined and for a non-numeric string.
IsNaN(x) == x.t \in {"undefined", "string"}
\* ToNumber(x) where it is a number: null converts to 0.
ToNum(x) == IF x.t = "number" THEN x.v ELSE 0

\* x < n and x > n for a number n: any comparison with NaN is false.
JsLt(x, n) == ~IsNaN(x) /\ ToNum(x) < n
JsGt(x, n) == ~IsNaN(x) /\ ToNum(x) > n
\* x === 0
JsStrictZero(x) == x.t = "number" /\ x.v = 0

Abs(n) == IF n < 0 THEN -n ELSE n
\* String(Math.abs(x))
AbsString(x) == IF IsNaN(x) THEN "NaN" ELSE ToString(Abs(ToNum(x)))

\* JavaScript's %: the remainder takes the sign of the dividend.
JsMod(a, b) == IF a >= 0 THEN a % b ELSE -((-a) % b)

\* ------------------------------------------------------------- fractions

RECURSIVE Gcd(_, _)
Gcd(a, b) == IF b = 0 THEN a ELSE Gcd(b, a % b)

\* A non-negative rational <<n, d>> in lowest terms.
Reduce(q) == LET g == Gcd(q[1], q[2]) IN <<q[1] \div g, q[2] \div g>>
FracMul(p, q) ==
    LET a == Reduce(p)
        b == Reduce(q)
        g1 == Gcd(a[1], b[2])
        g2 == Gcd(b[1], a[2])
    IN <<(a[1] \div g1) * (b[1] \div g2), (a[2] \div g2) * (b[2] \div g1)>>
FracInv(q) == <<q[2], q[1]>>
FracInt(n) == <<n, 1>>

\* ------------------------------------------------- normalization constants

\* .audioFrequency(44100), also the rate written into the asetrate filter
NormSampleRate == 44100
\* .audioChannels(2)
NormChannels == 2
\* .audioBitrate('128k')
NormBitrate == 128000
\* .format('mp3')
NormCodec == "mp3"

\* ------------------------------------------------------------ audio files

\* The stored files of the uploads directory before any transpose request.
\* bytes identifies the byte content; dur is the duration in seconds.
FileA == [kind |-> "audio", codec |-> "mp3", sampleRate |-> 44100, channels |-> 2,
          bitrate |-> 320000, dur |-> <<180, 1>>, bytes |-> "a"]
FileB == [kind |-> "audio", codec |-> "pcm_s16le", sampleRate |-> 48000, channels |-> 1,
          bitrate |-> 768000, dur |-> <<60, 1>>, bytes |-> "b"]
\* A stored file that is not decodable audio: the upload filter trusts the
\* declared MIME type, and an upload whose probe fails is answered 500 with
\* the file left in the uploads directory.
FileC == [kind |-> "junk", codec |-> "", sampleRate |-> 0, channels |-> 0,
          bitrate |-> 0, dur |-> <<0, 1>>, bytes |-> "c"]
\* An output that ffmpeg has opened and not finished writing.
PartialFile == [kind |-> "partial", codec |-> "mp3", sampleRate |-> 44100, channels |-> 2,
                bitrate |-> 128000, dur |-> <<0, 1>>, bytes |-> "partial"]

InitialUploads == [n \in {"a.mp3", "b.wav", "c.mp3"} |->
                     IF n = "a.mp3" THEN FileA ELSE IF n = "b.wav" THEN FileB ELSE FileC]

Write(dir, name, content) ==
    [n \in DOMAIN dir \cup {name} |-> IF n = name THEN content ELSE dir[n]]

\* ---------------------------------------------------------- key transformer

notes == <<"C", "C#", "D", "D#", "E", "F", "F#", "G", "G#", "A", "A#", "B">>
flatNotes == <<"C", "Db", "D", "Eb", "E", "F", "Gb", "G", "Ab", "A", "Bb", "B">>

\* The key names of the two note tables: 12 sharp-spelled and 5 more flat-spelled.
TableKeyNames == {notes[i] : i \in 1..Len(notes)} \cup {flatNotes[i] : i \in 1..Len(flatNotes)}

\* Array.prototype.indexOf on a 0-based array: -1 when absent.
IndexOf(arr, x) ==
    IF \E i \in 1..Len(arr) : arr[i] = x
    THEN (CHOOSE i \in 1..Len(arr) : arr[i] = x /\ \A j \in 1..(i - 1) : arr[j] # x) - 1
    ELSE -1

\* arr[i] of a 0-based array: undefined outside it.
At(arr, i) == IF i >= 0 /\ i < Len(arr) THEN arr[i + 1] ELSE "undefined"

\* The pitch-class index 0..11 a key name stands for, -1 for no key name.
PitchIndex(name) ==
    IF IndexOf(notes, name) # -1 THEN IndexOf(notes, name) ELSE IndexOf(flatNotes, name)

upNames == <<"Minor Second", "Major Second", "Minor Third", "Major Third",
             "Perfect Fourth", "Tritone", "Perfect Fifth", "Minor Sixth",
             "Major Sixth", "Minor Seventh", "Major Seventh", "Perfect Octave">>

\* A lookup without the `||` fallback: undefined outside the table.
getIntervalNameNoFallback(n) ==
    IF n = 0 THEN "Perfect Unison"
    ELSE IF n >= 1 /\ n <= 12 THEN upNames[n]
    ELSE IF n <= -1 /\ n >= -12 THEN upNames[-n] \o " (down)"
    ELSE "undefined"

\* An interval table whose downward entries carry no ' (down)'.
getIntervalNameNoDown(n) ==
    IF n = 0 THEN "Perfect Unison"
    ELSE IF n >= 1 /\ n <= 12 THEN upNames[n]
    ELSE IF n <= -1 /\ n >= -12 THEN upNames[-n]
    ELSE ToString(Abs(n)) \o " semitones " \o (IF n > 0 THEN "up" ELSE "down")

\* getIntervalName for a numeric argument n.
getIntervalName(n) ==
    IF n = 0 THEN "Perfect Unison"
    ELSE IF n >= 1 /\ n <= 12 THEN upNames[n]
    ELSE IF n <= -1 /\ n >= -12 THEN upNames[-n] \o " (down)"
    ELSE ToString(Abs(n)) \o " semitones " \o (IF n > 0 THEN "up" ELSE "down")

\* The index arithmetic without the + 12: a negative sum leaves the table.
calculateNewKeyNoOffset(originalKey, mode, n) ==
    LET i1 == IndexOf(notes, originalKey)
        noteIndex == IF i1 = -1 THEN IndexOf(flatNotes, originalKey) ELSE i1
        newIndex == JsMod(noteIndex + n, 12)
    IN IF noteIndex = -1 THEN None
       ELSE Some([originalKey |-> originalKey, originalMode |-> mode,
                  newKey |-> IF n >= 0 THEN At(notes, newIndex) ELSE At(flatNotes, newIndex),
                  newMode |-> mode, semitoneChange |-> n,
                  interval |-> getIntervalName(n)])

\* The sharp table chosen by `semitones > 0`: a shift of 0 spells flat.
calculateNewKeyFlatAtZero(originalKey, mode, n) ==
    LET i1 == IndexOf(notes, originalKey)
        noteIndex == IF i1 = -1 THEN IndexOf(flatNotes, originalKey) ELSE i1
        newIndex == JsMod(noteIndex + n + 12, 12)
    IN IF noteIndex = -1 THEN None
       ELSE Some([originalKey |-> originalKey, originalMode |-> mode,
                  newKey |-> IF n > 0 THEN At(notes, newIndex) ELSE At(flatNotes, newIndex),
                  newMode |-> mode, semitoneChange |-> n,
                  interval |-> getIntervalName(n)])

\* A lookup in the sharp table alone: a flat-spelled key is an invalid key.
calculateNewKeySharpLookupOnly(originalKey, mode, n) ==
    LET noteIndex == IndexOf(notes, originalKey)
        newIndex == JsMod(noteIndex + n + 12, 12)
    IN IF noteIndex = -1 THEN None
       ELSE Some([originalKey |-> originalKey, originalMode |-> mode,
                  newKey |-> IF n >= 0 THEN At(notes, newIndex) ELSE At(flatNotes, newIndex),
                  newMode |-> mode, semitoneChange |-> n,
                  interval |-> getIntervalName(n)])

\* calculateNewKey(originalKey, mode, semitones) for a numeric semitones n:
\* None when it throws 'Invalid key'.
calculateNewKey(originalKey, mode, n) ==
    LET i1 == IndexOf(notes, originalKey)
        noteIndex == IF i1 = -1 THEN IndexOf(flatNotes, originalKey) ELSE i1
        newIndex == JsMod(noteIndex + n + 12, 12)
    IN IF noteIndex = -1 THEN None
       ELSE Some([originalKey |-> originalKey, originalMode |-> mode,
                  newKey |-> IF n >= 0 THEN At(notes, newIndex) ELSE At(flatNotes, newIndex),
                  newMode |-> mode, semitoneChange |-> n,
                  interval |-> getIntervalName(n)])

\* calculateNewKey for the JSON value of semitones. null counts as 0 in the
\* index arithmetic and in `semitones >= 0`, but is no key of the interval
\* table, so the name is the fallback text built from Math.abs(null).
calculateNewKeyOf(originalKey, mode, semitones) ==
    LET k == calculateNewKey(originalKey, mode, ToNum(semitones))
    IN IF k = None \/ semitones.t = "number" THEN k
       ELSE Some([k[1] EXCEPT !.interval = "0 semitones down"])

\* ------------------------------------------------------------- transposer

\* Math.pow(2, n / 12) in thousandths, for n in -13..13. The irrational ratio
\* is carried as a rational; 1/pitchRatio below is its exact reciprocal, as
\* the two filter arguments are reciprocal up to floating-point rounding.
PitchRatioTable == <<472, 500, 530, 561, 595, 630, 667, 707, 749, 794, 841, 891, 944,
                     1000,
                     1059, 1122, 1189, 1260, 1335, 1414, 1498, 1587, 1682, 1782, 1888,
                     2000, 2119>>
pitchRatio(n) == <<PitchRatioTable[n + 14], 1000>>

\* The rate written into the filter string `asetrate=44100*${pitchRatio}`.
AsetrateBase == 44100
\* The rate the asetrate filter declares for the decoded samples.
Asetrate(content, n) == FracMul(FracInt(AsetrateBase), pitchRatio(n))
\* The atempo filter argument.
Atempo(n) == FracInv(pitchRatio(n))

\* The factor by which playback of content is sped up by the filter chain:
\* asetrate replays the decoded samples (recorded at content.sampleRate) at the
\* declared rate, atempo multiplies the speed again.
NetSpeed(content, n) ==
    FracMul(FracMul(Asetrate(content, n), <<1, content.sampleRate>>), Atempo(n))

\* An encode without .audioChannels(2): the input's channel count is kept.
EncodedKeepChannels(content, n) ==
    [kind |-> "audio", codec |-> NormCodec, sampleRate |-> NormSampleRate,
     channels |-> content.channels, bitrate |-> NormBitrate,
     dur |-> FracMul(content.dur, FracInv(NetSpeed(content, n))),
     bytes |-> "mp3(" \o content.bytes \o "," \o ToString(n) \o ")"]

\* An encode without .audioFrequency(44100): the asetrate rate is kept.
EncodedKeepRate(content, n) ==
    [kind |-> "audio", codec |-> NormCodec,
     sampleRate |-> Asetrate(content, n)[1] \div Asetrate(content, n)[2],
     channels |-> NormChannels, bitrate |-> NormBitrate,
     dur |-> FracMul(content.dur, FracInv(NetSpeed(content, n))),
     bytes |-> "mp3(" \o content.bytes \o "," \o ToString(n) \o ")"]

\* What ffmpeg writes for a decodable input and numeric ratio exponent n.
Encoded(content, n) ==
    [kind |-> "audio", codec |-> NormCodec, sampleRate |-> NormSampleRate,
     channels |-> NormChannels, bitrate |-> NormBitrate,
     dur |-> FracMul(content.dur, FracInv(NetSpeed(content, n))),
     bytes |-> "mp3(" \o content.bytes \o "," \o ToString(n) \o ")"]

\* A zero shift that goes through the encoder like any other shift.
CopiedReencoded(content) ==
    [content EXCEPT !.codec = NormCodec, !.bitrate = NormBitrate,
                    !.bytes = "mp3(" \o content.bytes \o ",0)"]

\* fs.copyFile(inputPath, outputPath)
Copied(content) == content

\* The object getAudioMetadata resolves with.
Probe(content) ==
    [duration |-> content.dur, bitrate |-> content.bitrate,
     sampleRate |-> content.sampleRate, channels |-> content.channels,
     codec |-> content.codec]

\* ------------------------------------------------------- request bodies

Truthy(opt) == opt # None /\ opt # Some("")

\* `transposed_${semitones > 0 ? 'up' : 'down'}_${Math.abs(semitones)}_${filename}`
outputFilename(filename, semitones) ==
    "transposed_" \o (IF JsGt(semitones, 0) THEN "up" ELSE "down") \o "_"
        \o AbsString(semitones) \o "_" \o filename

\* What a client may send as filename: absent, a stored file, a file that
\* does not exist, a stored file reached through a directory segment and
\* "..". The field is any JSON string; the route does not sanitize it.
Filenames == {None, Some("a.mp3"), Some("b.wav"), Some("c.mp3"), Some("x.mp3"),
              Some("x/../a.mp3")}

\* The segments of a file name between "/", for the names of Filenames.
Segments(name) == IF name = "x/../a.mp3" THEN <<"x", "..", "a.mp3">> ELSE <<name>>

\* The segments of outputFilename(filename, semitones): the text the template
\* puts before the file name has no "/", so it joins the name's first segment.
outputSegments(filename, semitones) ==
    LET s == Segments(filename)
    IN <<outputFilename(Head(s), semitones)>> \o Tail(s)

\* path.normalize on the segments below the uploads directory: "." and empty
\* segments are dropped, ".." removes the segment before it.
RECURSIVE Normalize(_, _)
Normalize(segs, acc) ==
    IF segs = <<>> THEN acc
    ELSE IF Head(segs) \in {"", "."} THEN Normalize(Tail(segs), acc)
    ELSE IF Head(segs) = ".." /\ acc # <<>> /\ acc[Len(acc)] # ".."
    THEN Normalize(Tail(segs), SubSeq(acc, 1, Len(acc) - 1))
    ELSE Normalize(Tail(segs), Append(acc, Head(segs)))

RECURSIVE JoinSegs(_)
JoinSegs(segs) ==
    IF segs = <<>> THEN "."
    ELSE IF Len(segs) = 1 THEN segs[1]
    ELSE segs[1] \o "/" \o JoinSegs(Tail(segs))

\* path.join(__dirname, '../../uploads', name), as the path below uploads.
pathJoin(segs) == JoinSegs(Normalize(segs, <<>>))
SemitoneValues ==
    {JsNum(n) : n \in (-MaxSemitoneInput)..MaxSemitoneInput} \cup {JsUndefined, JsNull, JsStr}
\* originalKey and mode: absent, valid sharp and flat spellings, an unknown
\* key, a key without its mode.
KeyChoices == {<<None, None>>, <<Some("C"), Some("major")>>,
               <<Some("Bb"), Some("minor")>>, <<Some("H"), Some("major")>>,
               <<Some("C"), None>>}

AllBodies == {[filename |-> f, semitones |-> s, originalKey |-> k[1], mode |-> k[2]] :
                 f \in Filenames, s \in SemitoneValues, k \in KeyChoices}
\* Requests after the first draw from a small set of valid bodies, enough to
\* run concurrently with a first request on the same or on another file, with
\* the same or another shift.
RepeatBodies == {[filename |-> Some("a.mp3"), semitones |-> JsNum(n),
                  originalKey |-> None, mode |-> None] : n \in {0, 5}}
Bodies(r) == IF r = 1 THEN AllBodies ELSE RepeatBodies

EmptyBody == [filename |-> None, semitones |-> JsUndefined, originalKey |-> None, mode |-> None]

\* --------------------------------------------------------------- state

VARIABLES
    uploads,         \* the uploads directory: file name -> content
    pc,              \* per request: the await the handler is suspended at
    body,            \* per request: req.body
    proc,            \* per request: its ffmpeg child process
    transposedPath,  \* per request: the handler's local, set when the shift resolves
    metadata,        \* per request: the handler's local, set when the probe resolves
    res,             \* per request: the response sent, None before
    aborted,         \* per request: the client gave up waiting (axios timeout)
    io,              \* per request: the external operations it has issued, in order
    kt,              \* calls of the key transformer: arguments and results
    an,              \* the POST /analyze request: its position, locals and response
    nm,              \* two transpose requests and the output paths derived for them
    ap,              \* the frontend audio player and its calls in flight
    pl,              \* the stored playlists and the playlist calls in flight
    gd,              \* the Google Drive service instance and its clients
    tp               \* the Transpose page: analysed key, shift, shown key, saved label

transposeVars == <<uploads, pc, body, proc, transposedPath, metadata, res, aborted, io>>
vars == <<uploads, pc, body, proc, transposedPath, metadata, res, aborted, io,
          kt, an, nm, ap, pl, gd, tp>>

\* No key transformer call has been made.
KtIdle == [stage |-> "idle", key |-> "", mode |-> "", s1 |-> 0, s2 |-> 0,
           first |-> None, second |-> None, direct |-> None]
\* No analyze request has been received.
AnIdle == [pc |-> "Idle", filename |-> None, keyInfo |-> None, metadata |-> None,
           probe |-> "none", res |-> None]
\* No output path has been derived.
NmIdle == [stage |-> "idle", f1 |-> "", s1 |-> 0, f2 |-> "", s2 |-> 0,
           out1 |-> "", out2 |-> ""]
\* Calls of the audio player that can be suspended at an await at a time.
MaxCalls == 2
\* new AudioPlayerService(): nothing loaded, an empty playlist. late stands
\* for currentTime > 3, src for the song audio.src points at, calls for the
\* bag of calls suspended at an await, stopped for "stop() was the last
\* operation requested".
ApIdle == [currentSong |-> None, isPlaying |-> FALSE, late |-> FALSE, src |-> None,
           playlist |-> <<>>, currentIndex |-> 0, shuffle |-> FALSE, repeat |-> "none",
           calls |-> EmptyBag, stopped |-> FALSE]
\* Playlist calls that can be in flight at a time.
MaxEdits == 2
Edits == 1..MaxEdits
\* No playlist call occupies the slot.
EditIdle == [op |-> "none", pc |-> "idle", songId |-> 0, songs |-> <<>>, put |-> None]
\* The playlists store holds one playlist as createPlaylist wrote it, and no
\* call is in flight.
PlIdle == [stored |-> [songs |-> <<>>, songCount |-> 0],
           calls |-> [e \in Edits |-> EditIdle]]
\* Clients of the Google Drive routes.
MaxClients == 2
Clients == 1..MaxClients
\* new GoogleDriveService() at module load: drive and auth are null. auth
\* names the client whose tokens the shared instance holds, exchanging the
\* clients whose auth-callback waits for getToken, supplied the clients that
\* have installed tokens, last the last answer each client got.
GdIdle == [auth |-> None,
           exchanging |-> {},
           supplied |-> {},
           last |-> [c \in Clients |-> None]]
\* The Transpose page has no analysed file and no transposition.
TpIdle == [stage |-> "idle", originalKey |-> None, mode |-> None, semitones |-> 0,
           response |-> None, shown |-> None, label |-> None]

NoResponse == None
ErrorResponse(status, error) ==
    Some([status |-> status, error |-> error, transposedFile |-> None,
          metadata |-> None, keyInfo |-> None])
SuccessResponse(file, md, keyInfo) ==
    Some([status |-> 200, error |-> "", transposedFile |-> file,
          metadata |-> md, keyInfo |-> keyInfo])

\* inputPath and outputPath of the handler, below the uploads directory.
inputName(r) == pathJoin(Segments(body[r].filename[1]))
outputName(r) == pathJoin(outputSegments(body[r].filename[1], body[r].semitones))

TransposeInit ==
    /\ uploads = InitialUploads
    /\ pc = [r \in Reqs |-> "Idle"]
    /\ body = [r \in Reqs |-> EmptyBody]
    /\ proc = [r \in Reqs |-> "none"]
    /\ transposedPath = [r \in Reqs |-> None]
    /\ metadata = [r \in Reqs |-> None]
    /\ res = [r \in Reqs |-> NoResponse]
    /\ aborted = [r \in Reqs |-> FALSE]
    /\ io = [r \in Reqs |-> <<>>]

Init ==
    /\ TransposeInit
    /\ kt = KtIdle /\ an = AnIdle /\ nm = NmIdle /\ ap = ApIdle /\ pl = PlIdle /\ gd = GdIdle /\ tp = TpIdle

\* An error response without `return`: the handler carries on.
FailNoReturn(r, status, error) ==
    /\ pc' = [pc EXCEPT ![r] = IF pc[r] = "Idle" THEN "Validating" ELSE pc[r]]
    /\ res' = [res EXCEPT ![r] = ErrorResponse(status, error)]

\* The route's catch block, and its early returns: the response ends the request.
Fail(r, status, error) ==
    /\ pc' = [pc EXCEPT ![r] = "Failed"]
    /\ res' = [res EXCEPT ![r] = ErrorResponse(status, error)]

\* A validation whose upper limit is off by one.
ValidationErrorOffByOne(b) ==
    IF ~Truthy(b.filename) THEN "Filename is required"
    ELSE IF b.semitones.t = "undefined" \/ JsLt(b.semitones, -12) \/ JsGt(b.semitones, 13)
    THEN "Semitones must be between -12 and +12"
    ELSE ""

\* The route's validation of req.body (filename first, then semitones):
\* "" when the body passes.
ValidationError(b) ==
    IF ~Truthy(b.filename) THEN "Filename is required"
    ELSE IF b.semitones.t = "undefined" \/ JsLt(b.semitones, -12) \/ JsGt(b.semitones, 12)
    THEN "Semitones must be between -12 and +12"
    ELSE ""

\* POST /transpose up to its first await: validation, then fs.access(inputPath).
Transpose(r) ==
    /\ pc[r] = "Idle"
    /\ \E b \in Bodies(r) :
        /\ body' = [body EXCEPT ![r] = b]
        /\ IF ValidationError(b) # ""
           THEN /\ Fail(r, 400, ValidationError(b))
                /\ io' = io
           ELSE /\ pc' = [pc EXCEPT ![r] = "Validating"]
                /\ io' = [io EXCEPT ![r] = Append(@, "access")]
                /\ res' = res
    /\ UNCHANGED <<uploads, proc, transposedPath, metadata, aborted, kt, an, nm, ap, pl, gd, tp>>

\* transposeAudio's own precondition check: it throws when this holds.
ShiftOutOfRange(semitones) == JsLt(semitones, -12) \/ JsGt(semitones, 12)

\* fs.access(inputPath) settles: 404 when the file is absent, otherwise the
\* handler calls transposeAudio, which runs to its own first await: it throws,
\* starts fs.copyFile (semitones === 0) or spawns ffmpeg.
AccessDone(r) ==
    /\ pc[r] = "Validating"
    /\ IF inputName(r) \notin DOMAIN uploads
       THEN /\ Fail(r, 404, "Audio file not found")
            /\ UNCHANGED <<proc, io>>
       ELSE IF ShiftOutOfRange(body[r].semitones)
       THEN /\ Fail(r, 500, "Semitones must be between -12 and +12")
            /\ UNCHANGED <<proc, io>>
       ELSE IF JsStrictZero(body[r].semitones)
       THEN /\ pc' = [pc EXCEPT ![r] = "Shifting"]
            /\ io' = [io EXCEPT ![r] = Append(@, "copyFile")]
            /\ UNCHANGED <<proc, res>>
       ELSE /\ pc' = [pc EXCEPT ![r] = "Shifting"]
            /\ proc' = [proc EXCEPT ![r] = "running"]
            /\ io' = [io EXCEPT ![r] = Append(@, "ffmpeg")]
            /\ UNCHANGED res
    /\ UNCHANGED <<uploads, body, transposedPath, metadata, aborted, kt, an, nm, ap, pl, gd, tp>>

\* The shift resolved with outputPath: the handler stores it and calls
\* getAudioMetadata(transposedPath).
ShiftResolved(r) ==
    /\ transposedPath' = [transposedPath EXCEPT ![r] = Some(outputName(r))]
    /\ pc' = [pc EXCEPT ![r] = "Probing"]
    /\ io' = [io EXCEPT ![r] = Append(@, "ffprobe")]

\* fs.copyFile settles (the zero shift).
CopyFileDone(r) ==
    /\ pc[r] = "Shifting"
    /\ proc[r] = "none"
    /\ IF inputName(r) \in DOMAIN uploads
       THEN /\ uploads' = Write(uploads, outputName(r), Copied(uploads[inputName(r)]))
            /\ ShiftResolved(r)
            /\ res' = res
       ELSE /\ Fail(r, 500, "ENOENT")
            /\ UNCHANGED <<uploads, transposedPath, io>>
    /\ UNCHANGED <<body, proc, metadata, aborted, kt, an, nm, ap, pl, gd, tp>>

\* ffmpeg can decode the input and parse its filter arguments.
CanEncode(r) ==
    /\ inputName(r) \in DOMAIN uploads
    /\ uploads[inputName(r)].kind = "audio"
    /\ ~IsNaN(body[r].semitones)

\* ffmpeg has opened its input and creates (truncates) the output file. It
\* exits with an error instead when the output is named as its input.
FfmpegOpenOutput(r) ==
    /\ pc[r] = "Shifting"
    /\ proc[r] = "running"
    /\ outputName(r) # inputName(r)
    /\ inputName(r) \in DOMAIN uploads
    /\ uploads[inputName(r)].kind = "audio"
    /\ uploads' = Write(uploads, outputName(r), PartialFile)
    /\ proc' = [proc EXCEPT ![r] = "writing"]
    /\ UNCHANGED <<pc, body, transposedPath, metadata, res, aborted, io, kt, an, nm, ap, pl, gd, tp>>

\* ffmpeg finishes: the 'end' event resolves the promise with outputPath.
FfmpegEnd(r) ==
    /\ pc[r] = "Shifting"
    /\ proc[r] = "writing"
    /\ CanEncode(r)
    /\ uploads' = Write(uploads, outputName(r),
                        Encoded(uploads[inputName(r)], ToNum(body[r].semitones)))
    /\ proc' = [proc EXCEPT ![r] = "exited"]
    /\ ShiftResolved(r)
    /\ UNCHANGED <<body, metadata, res, aborted, kt, an, nm, ap, pl, gd, tp>>

\* What transposeAudio does about the output file when ffmpeg reports an error.
OnFfmpegError(dir, r) == dir

\* A transposer that spawns ffmpeg a second time after a first failure.
FfmpegErrorRetryOnce(r) ==
    /\ pc[r] = "Shifting"
    /\ proc[r] \in {"running", "writing"}
    /\ IF Len(SelectSeq(io[r], LAMBDA op : op = "ffmpeg")) < 2
       THEN /\ proc' = [proc EXCEPT ![r] = "running"]
            /\ io' = [io EXCEPT ![r] = Append(@, "ffmpeg")]
            /\ UNCHANGED <<uploads, pc, res>>
       ELSE /\ proc' = [proc EXCEPT ![r] = "exited"]
            /\ uploads' = OnFfmpegError(uploads, r)
            /\ Fail(r, 500, "Audio processing failed")
            /\ io' = io
    /\ UNCHANGED <<body, transposedPath, metadata, aborted, kt, an, nm, ap, pl, gd, tp>>

\* ffmpeg fails at any stage (undecodable input, bad filter argument, I/O
\* error): the 'error' event rejects, the route answers 500.
FfmpegError(r) ==
    /\ pc[r] = "Shifting"
    /\ proc[r] \in {"running", "writing"}
    /\ proc' = [proc EXCEPT ![r] = "exited"]
    /\ uploads' = OnFfmpegError(uploads, r)
    /\ Fail(r, 500, "Audio processing failed")
    /\ UNCHANGED <<body, transposedPath, metadata, aborted, io, kt, an, nm, ap, pl, gd, tp>>

\* A continuation that looks at originalKey alone.
ProbeResolvedKeyOnly(r, md) ==
    /\ metadata' = [metadata EXCEPT ![r] = Some(md)]
    /\ IF Truthy(body[r].originalKey)
       THEN /\ pc' = [pc EXCEPT ![r] = "KeyMapping"]
            /\ res' = res
       ELSE /\ pc' = [pc EXCEPT ![r] = "Done"]
            /\ res' = [res EXCEPT ![r] =
                          SuccessResponse(transposedPath[r], Some(md), None)]

\* The continuation after the probe resolved with md: key mapping is due
\* when originalKey and mode are both truthy, otherwise the response is sent.
ProbeResolved(r, md) ==
    /\ metadata' = [metadata EXCEPT ![r] = Some(md)]
    /\ IF Truthy(body[r].originalKey) /\ Truthy(body[r].mode)
       THEN /\ pc' = [pc EXCEPT ![r] = "KeyMapping"]
            /\ res' = res
       ELSE /\ pc' = [pc EXCEPT ![r] = "Done"]
            /\ res' = [res EXCEPT ![r] =
                          SuccessResponse(transposedPath[r], Some(md), None)]

\* A route that swallows the probe error and answers with the file alone.
ProbeRejectedDegraded(r) ==
    /\ pc' = [pc EXCEPT ![r] = "Done"]
    /\ res' = [res EXCEPT ![r] = SuccessResponse(transposedPath[r], None, None)]
    /\ metadata' = metadata

\* What the route does when getAudioMetadata rejects.
ProbeRejected(r) ==
    /\ Fail(r, 500, "Failed to read audio metadata")
    /\ metadata' = metadata

\* ffprobe on the output settles. A file that is not audio is rejected; a
\* file another ffmpeg is still writing may be rejected or read as it is.
ProbeDone(r) ==
    /\ pc[r] = "Probing"
    /\ LET p == transposedPath[r][1] IN
        \/ /\ p \in DOMAIN uploads
           /\ uploads[p].kind \in {"audio", "partial"}
           /\ ProbeResolved(r, Probe(uploads[p]))
        \/ /\ p \notin DOMAIN uploads \/ uploads[p].kind \in {"junk", "partial"}
           /\ ProbeRejected(r)
    /\ UNCHANGED <<uploads, body, proc, transposedPath, aborted, io, kt, an, nm, ap, pl, gd, tp>>

\* calculateNewKey and res.json, which the handler runs in the same turn as
\* the probe's continuation; a throw is caught by the route and answered 500.
KeyMap(r) ==
    /\ pc[r] = "KeyMapping"
    /\ LET k == calculateNewKeyOf(body[r].originalKey[1], body[r].mode[1],
                                  body[r].semitones) IN
        IF k = None
        THEN Fail(r, 500, "Invalid key")
        ELSE /\ pc' = [pc EXCEPT ![r] = "Done"]
             /\ res' = [res EXCEPT ![r] =
                           SuccessResponse(transposedPath[r], metadata[r], k)]
    /\ UNCHANGED <<uploads, body, proc, transposedPath, metadata, aborted, io, kt, an, nm, ap, pl, gd, tp>>

InFlight(r) == pc[r] \in {"Validating", "Shifting", "Probing", "KeyMapping"}

\* The client's 5 minute axios timeout fires while the shift, the one
\* long-running step, is in progress, and the client drops the connection.
\* The route registers no 'close' or 'aborted' listener: nothing on the
\* server reacts.
ClientAbort(r) ==
    /\ pc[r] = "Shifting"
    /\ ~aborted[r]
    /\ aborted' = [aborted EXCEPT ![r] = TRUE]
    /\ UNCHANGED <<uploads, pc, body, proc, transposedPath, metadata, res, io, kt, an, nm, ap, pl, gd, tp>>

Next ==
    \E r \in Reqs :
        \/ Transpose(r)
        \/ AccessDone(r)
        \/ CopyFileDone(r)
        \/ FfmpegOpenOutput(r)
        \/ FfmpegEnd(r)
        \/ FfmpegError(r)
        \/ ProbeDone(r)
        \/ KeyMap(r)
        \/ ClientAbort(r)

Spec == Init /\ [][Next]_vars

\* ------------------------------------------------- key transformer calls

\* The range of semitones transposeAudio and the route accept.
MinSemitones == -12
MaxSemitones == 12
ShiftRange == MinSemitones..MaxSemitones

\* Arguments of calculateNewKey: every name of the note tables and a name of
\* neither, both modes, shifts inside the accepted range and just outside.
KeyInputs == TableKeyNames \cup {"H"}
Modes == {"major", "minor"}
ShiftInputs == (-MaxSemitoneInput)..MaxSemitoneInput

KeyInit ==
    /\ TransposeInit
    /\ an = AnIdle /\ nm = NmIdle /\ ap = ApIdle /\ pl = PlIdle /\ gd = GdIdle /\ tp = TpIdle
    /\ kt \in {[KtIdle EXCEPT !.stage = "input", !.key = k, !.mode = m,
                              !.s1 = a, !.s2 = b] :
                  k \in KeyInputs, m \in Modes, a \in ShiftInputs, b \in ShiftInputs}

\* calculateNewKey(key, mode, s1)
ApplyFirst ==
    /\ kt.stage = "input"
    /\ kt' = [kt EXCEPT !.stage = "first",
                        !.first = calculateNewKey(kt.key, kt.mode, kt.s1)]
    /\ UNCHANGED <<transposeVars, an, nm, ap, pl, gd, tp>>

\* calculateNewKey(first.newKey, mode, s2): the first result's key shifted again.
ApplySecond ==
    /\ kt.stage = "first"
    /\ kt.first # None
    /\ kt' = [kt EXCEPT !.stage = "second",
                        !.second = calculateNewKey(kt.first[1].newKey, kt.mode, kt.s2)]
    /\ UNCHANGED <<transposeVars, an, nm, ap, pl, gd, tp>>

\* calculateNewKey(key, mode, s1 + s2): the two shifts applied as one.
ApplyDirect ==
    /\ kt.stage = "second"
    /\ kt.s1 + kt.s2 \in ShiftInputs
    /\ kt' = [kt EXCEPT !.stage = "direct",
                        !.direct = calculateNewKey(kt.key, kt.mode, kt.s1 + kt.s2)]
    /\ UNCHANGED <<transposeVars, an, nm, ap, pl, gd, tp>>

KeyNext == ApplyFirst \/ ApplySecond \/ ApplyDirect

KeySpec == KeyInit /\ [][KeyNext]_vars

\* ------------------------------------------------------- POST /analyze

commonKeys == <<"C", "G", "D", "A", "E", "B", "F#", "F", "Bb", "Eb", "Ab", "Db">>
\* confidence: 0.75, as a fraction
DetectKeyConfidence == <<3, 4>>

\* A detector whose table also lists Cb, a name of neither note table.
detectKeyWithCb(audioPath) ==
    {[key |-> k, mode |-> m, confidence |-> DetectKeyConfidence] :
        k \in {commonKeys[i] : i \in 1..Len(commonKeys)} \cup {"Cb"}, m \in Modes}

\* A detector whose mode is drawn from three values.
detectKeyThreeModes(audioPath) ==
    {[key |-> commonKeys[i], mode |-> m, confidence |-> DetectKeyConfidence] :
        i \in 1..Len(commonKeys), m \in Modes \cup {"dorian"}}

\* detectKey(audioPath): the objects it can resolve with, one for each
\* outcome of its two Math.random() calls. It does not open audioPath and
\* it has no rejecting path.
detectKey(audioPath) ==
    {[key |-> commonKeys[i], mode |-> m, confidence |-> DetectKeyConfidence] :
        i \in 1..Len(commonKeys), m \in Modes}

\* Array.from({ length: 25 }, (_, i) => i - 12)
TableLength == 25
TableOffset == 12
TableSemitones == [i \in 1..TableLength |-> (i - 1) - TableOffset]

\* One entry of supportedTranspositions.
TranspositionEntry(keyInfo, semitones) ==
    [semitones |-> semitones,
     interval |-> getIntervalName(semitones),
     newKey |-> IF keyInfo.key # "" /\ keyInfo.mode # ""
                THEN calculateNewKey(keyInfo.key, keyInfo.mode, semitones)[1].newKey
                ELSE "null"]

\* The table without the filter: an entry for 0 as well.
supportedTranspositionsWithZero(keyInfo) ==
    [j \in 1..Len(TableSemitones) |-> TranspositionEntry(keyInfo, TableSemitones[j])]

\* .filter(semitones => semitones !== 0).map(semitones => ({...}))
supportedTranspositions(keyInfo) ==
    LET kept == SelectSeq(TableSemitones, LAMBDA x : x # 0)
    IN [j \in 1..Len(kept) |-> TranspositionEntry(keyInfo, kept[j])]

\* A calculateNewKey call of the table throws.
TableThrows(keyInfo) ==
    /\ keyInfo.key # "" /\ keyInfo.mode # ""
    /\ \E j \in 1..Len(TableSemitones) :
          /\ TableSemitones[j] # 0
          /\ calculateNewKey(keyInfo.key, keyInfo.mode, TableSemitones[j]) = None

AnalyzeError(status, error) ==
    Some([status |-> status, error |-> error, metadata |-> None, keyInfo |-> None,
          supportedTranspositions |-> <<>>])
AnalyzeSuccess(md, keyInfo) ==
    Some([status |-> 200, error |-> "", metadata |-> Some(md), keyInfo |-> Some(keyInfo),
          supportedTranspositions |-> supportedTranspositions(keyInfo)])

\* audioPath of the analyze handler, below the uploads directory.
audioPath == pathJoin(Segments(an.filename[1]))

\* POST /analyze up to its first await: the filename check, then fs.access.
Analyze ==
    /\ an.pc = "Idle"
    /\ \E f \in Filenames :
        IF ~Truthy(f)
        THEN an' = [an EXCEPT !.pc = "Failed", !.filename = f,
                              !.res = AnalyzeError(400, "Filename is required")]
        ELSE an' = [an EXCEPT !.pc = "Validating", !.filename = f]
    /\ UNCHANGED <<transposeVars, kt, nm, ap, pl, gd, tp>>

\* fs.access settles: 404 when the file is absent, otherwise the handler
\* calls getAudioMetadata, which spawns ffprobe, and detectKey, which runs to
\* its end and returns a resolved promise, and awaits Promise.all of the two.
AnalyzeAccessDone ==
    /\ an.pc = "Validating"
    /\ IF audioPath \notin DOMAIN uploads
       THEN an' = [an EXCEPT !.pc = "Failed",
                             !.res = AnalyzeError(404, "Audio file not found")]
       ELSE \E k \in detectKey(audioPath) :
               an' = [an EXCEPT !.pc = "Awaiting", !.probe = "pending",
                                !.keyInfo = Some(k)]
    /\ UNCHANGED <<transposeVars, kt, nm, ap, pl, gd, tp>>

\* ffprobe settles and with it Promise.all: rejected for a file that is not
\* audio (the catch answers 500), otherwise the handler builds the response;
\* a throw while it builds the table is answered 500 by the same catch.
AnalyzeProbeDone ==
    /\ an.pc = "Awaiting"
    /\ IF audioPath \notin DOMAIN uploads \/ uploads[audioPath].kind # "audio"
       THEN an' = [an EXCEPT !.pc = "Failed", !.probe = "rejected",
                             !.res = AnalyzeError(500, "Failed to read audio metadata")]
       ELSE IF TableThrows(an.keyInfo[1])
       THEN an' = [an EXCEPT !.pc = "Failed", !.probe = "resolved",
                             !.metadata = Some(Probe(uploads[audioPath])),
                             !.res = AnalyzeError(500, "Invalid key")]
       ELSE an' = [an EXCEPT !.pc = "Done", !.probe = "resolved",
                             !.metadata = Some(Probe(uploads[audioPath])),
                             !.res = AnalyzeSuccess(Probe(uploads[audioPath]), an.keyInfo[1])]
    /\ UNCHANGED <<transposeVars, kt, nm, ap, pl, gd, tp>>

AnalyzeNext == Analyze \/ AnalyzeAccessDone \/ AnalyzeProbeDone

AnalyzeSpec == Init /\ [][AnalyzeNext]_vars

\* ------------------------------------------------------- output naming

\* The file names a transpose request may carry.
RequestNames == {f[1] : f \in Filenames \ {None}}

NameInit ==
    /\ TransposeInit
    /\ kt = KtIdle /\ an = AnIdle /\ ap = ApIdle /\ pl = PlIdle /\ gd = GdIdle /\ tp = TpIdle
    /\ nm \in {[NmIdle EXCEPT !.stage = "input", !.f1 = f1, !.s1 = s1,
                              !.f2 = f2, !.s2 = s2] :
                  f1 \in RequestNames, s1 \in ShiftRange,
                  f2 \in RequestNames, s2 \in ShiftRange}

\* The handlers of the two requests compute outputFilename and outputPath.
DeriveOutputPaths ==
    /\ nm.stage = "input"
    /\ nm' = [nm EXCEPT !.stage = "derived",
                        !.out1 = pathJoin(outputSegments(nm.f1, JsNum(nm.s1))),
                        !.out2 = pathJoin(outputSegments(nm.f2, JsNum(nm.s2)))]
    /\ UNCHANGED <<transposeVars, kt, an, ap, pl, gd, tp>>

NameNext == DeriveOutputPaths

NameSpec == NameInit /\ [][NameNext]_vars

\* ------------------------------------------------------- Transpose page

\* `${semitones > 0 ? '+' : ''}${semitones}`
signedShift(n) == (IF n > 0 THEN "+" ELSE "") \o ToString(n)

\* originalKey.replace(/m$/, ''): a key name followed by "m" loses the "m".
stripMinor(originalKey) ==
    IF \E k \in TableKeyNames : originalKey = k \o "m"
    THEN CHOOSE k \in TableKeyNames : originalKey = k \o "m"
    ELSE originalKey

\* originalKey.endsWith('m')
endsWithM(originalKey) == \E k \in TableKeyNames : originalKey = k \o "m"

\* calculateTargetKey(originalKey, semitones) of the page: the key label of
\* a saved transposed file. originalKey is None when nothing was analysed.
calculateTargetKey(originalKey, n) ==
    LET name == IF originalKey = None THEN "" ELSE originalKey[1]
        noteIndex == IndexOf(notes, stripMinor(name))
        targetIndex == JsMod(noteIndex + n + 12, 12)
    IN IF originalKey = None THEN signedShift(n)
       ELSE IF noteIndex = -1 THEN name \o " " \o signedShift(n)
       ELSE At(notes, targetIndex) \o (IF endsWithM(name) THEN "m" ELSE "")

\* calculateNewKey(originalKey, mode, semitones) of the page: the key it
\* shows, None for null.
pageCalculateNewKey(originalKey, mode, n) ==
    LET name == IF originalKey = None THEN "" ELSE originalKey[1]
        i1 == IndexOf(notes, name)
        noteIndex == IF i1 = -1 THEN IndexOf(flatNotes, name) ELSE i1
        newIndex == JsMod(noteIndex + n + 12, 12)
    IN IF originalKey = None THEN None
       ELSE IF noteIndex = -1 THEN Some(name)
       ELSE Some(IF n >= 0 THEN At(notes, newIndex) ELSE At(flatNotes, newIndex))

\* analyzedAudio.keyInfo: absent, or one of the objects detectKey resolves with.
AnalyzedKeys == {None} \cup {Some(k) : k \in detectKey("")}

\* The page holds a file, analysed or not, and the slider's value.
PageInit ==
    /\ TransposeInit
    /\ kt = KtIdle /\ an = AnIdle /\ nm = NmIdle
    /\ ap = ApIdle /\ pl = PlIdle /\ gd = GdIdle
    /\ tp \in {[TpIdle EXCEPT !.stage = "ready",
                              !.originalKey = IF a = None THEN None ELSE Some(a[1].key),
                              !.mode = IF a = None THEN None ELSE Some(a[1].mode),
                              !.semitones = n] :
                  a \in AnalyzedKeys, n \in ShiftRange}

\* handleTranspose with the slider at 0: a toast and no request.
PageTransposeZero ==
    /\ tp.stage = "ready"
    /\ tp.semitones = 0
    /\ tp' = [tp EXCEPT !.stage = "refused"]
    /\ UNCHANGED <<transposeVars, kt, an, nm, ap, pl, gd>>

\* handleTranspose: the backend answered; transposedData is set and the
\* page shows "Transposed to <new key> <mode>".
PageTransposed ==
    /\ tp.stage = "ready"
    /\ tp.semitones # 0
    /\ tp' = [tp EXCEPT
                !.stage = "transposed",
                !.response = IF tp.originalKey = None THEN None
                             ELSE calculateNewKey(tp.originalKey[1], tp.mode[1], tp.semitones),
                !.shown = pageCalculateNewKey(tp.originalKey, tp.mode, tp.semitones)]
    /\ UNCHANGED <<transposeVars, kt, an, nm, ap, pl, gd>>

\* handleTranspose: the request failed; nothing is saved.
PageTransposeFailed ==
    /\ tp.stage = "ready"
    /\ tp.semitones # 0
    /\ tp' = [tp EXCEPT !.stage = "failed"]
    /\ UNCHANGED <<transposeVars, kt, an, nm, ap, pl, gd>>

\* saveTransposedToLibraryWithData: the file is stored with keyInfo.key =
\* calculateTargetKey(originalKey, semitones).
PageAutoSave ==
    /\ tp.stage = "transposed"
    /\ tp' = [tp EXCEPT !.stage = "saved",
                        !.label = Some(calculateTargetKey(tp.originalKey, tp.semitones))]
    /\ UNCHANGED <<transposeVars, kt, an, nm, ap, pl, gd>>

PageNext == PageTransposeZero \/ PageTransposed \/ PageTransposeFailed \/ PageAutoSave

PageSpec == PageInit /\ [][PageNext]_vars

\* ---------------------------------------------------------- audio player

\* The songs of the library and the song lists handed to the player.
MaxSongs == 2
Songs == 1..MaxSongs
SongLists == {[i \in 1..n |-> i] : n \in 0..MaxSongs}
StartIndexes == (-1)..MaxSongs
RepeatModes == {"none", "one", "all"}

PlayerInit ==
    /\ TransposeInit
    /\ kt = KtIdle /\ an = AnIdle /\ nm = NmIdle
    /\ pl = PlIdle /\ gd = GdIdle /\ tp = TpIdle
    /\ ap = ApIdle

Min(a, b) == IF a < b THEN a ELSE b
Max(a, b) == IF a > b THEN a ELSE b

\* playlist[i] of the 0-based array.
SongAt(list, i) == list[i + 1]

\* One more call may suspend.
CanSuspend == BagCardinality(ap.calls) < MaxCalls

\* A call of op suspended in loadSong(song), and one suspended in
\* getPlaylistSongs.
Loading(op, song) == [op |-> op, pc |-> "loading", song |-> Some(song)]
Fetching == [op |-> "playPlaylist", pc |-> "fetching", song |-> None]
Suspend(calls, call) == calls (+) SetToBag({call})
Resume(calls, call) == calls (-) SetToBag({call})

\* loadSong up to its first await: pause(), currentSong = song, then the
\* call waits for the storage service. p is the player as the caller left it.
loadSongBegins(p, op, song) ==
    [p EXCEPT !.isPlaying = FALSE, !.currentSong = Some(song),
              !.calls = Suspend(@, Loading(op, song))]

\* A setPlaylist that stores startIndex as it is given.
setPlaylistUnclamped(songs, startIndex) ==
    /\ CanSuspend
    /\ LET p == [ap EXCEPT !.playlist = songs, !.currentIndex = startIndex,
                           !.stopped = FALSE]
       IN ap' = IF Len(songs) > 0 /\ startIndex \in 0..(Len(songs) - 1)
                THEN loadSongBegins(p, "setPlaylist", SongAt(songs, startIndex))
                ELSE p
    /\ UNCHANGED <<transposeVars, kt, an, nm, pl, gd, tp>>

\* setPlaylist(songs, startIndex)
setPlaylist(songs, startIndex) ==
    /\ CanSuspend
    /\ LET index == Max(0, Min(startIndex, Len(songs) - 1))
           p == [ap EXCEPT !.playlist = songs, !.currentIndex = index, !.stopped = FALSE]
       IN ap' = IF Len(songs) > 0
                THEN loadSongBegins(p, "setPlaylist", SongAt(songs, index))
                ELSE p
    /\ UNCHANGED <<transposeVars, kt, an, nm, pl, gd, tp>>

\* The indexes next() can move to: none when it returns early.
nextIndexes ==
    IF Len(ap.playlist) = 0 THEN {}
    ELSE IF ap.shuffle THEN 0..(Len(ap.playlist) - 1)
    ELSE IF ap.currentIndex + 1 >= Len(ap.playlist)
         THEN (IF ap.repeat = "all" THEN {0} ELSE {})
         ELSE {ap.currentIndex + 1}

\* The player after next() ran up to its first await, or returned early.
nextBegins ==
    (IF nextIndexes = {} THEN {[ap EXCEPT !.stopped = FALSE]} ELSE {})
    \cup {loadSongBegins([ap EXCEPT !.currentIndex = i, !.stopped = FALSE], "next",
                         SongAt(ap.playlist, i)) : i \in nextIndexes}

\* next()
next ==
    /\ CanSuspend
    /\ ap' \in nextBegins
    /\ UNCHANGED <<transposeVars, kt, an, nm, pl, gd, tp>>

\* The indexes previous() can move to: none when it returns early.
previousIndexes ==
    IF Len(ap.playlist) = 0 \/ ap.late THEN {}
    ELSE IF ap.shuffle THEN 0..(Len(ap.playlist) - 1)
    ELSE IF ap.currentIndex - 1 < 0
         THEN (IF ap.repeat = "all" THEN {Len(ap.playlist) - 1} ELSE {})
         ELSE {ap.currentIndex - 1}

\* previous(): more than 3 seconds into the song it seeks to 0 and returns.
previous ==
    /\ CanSuspend
    /\ \/ /\ previousIndexes = {}
          /\ ap' = [ap EXCEPT !.stopped = FALSE,
                              !.late = IF Len(ap.playlist) = 0 THEN @ ELSE FALSE]
       \/ \E i \in previousIndexes :
             ap' = loadSongBegins([ap EXCEPT !.currentIndex = i, !.stopped = FALSE],
                                  "previous", SongAt(ap.playlist, i))
    /\ UNCHANGED <<transposeVars, kt, an, nm, pl, gd, tp>>

\* audio.play(): playback starts when the element has a source.
play(p) == [p EXCEPT !.isPlaying = (p.src # None)]

\* handleSongEnd(), the 'ended' listener: with repeat 'one' seek(0) and
\* play(), otherwise next().
handleSongEnd ==
    /\ CanSuspend
    /\ ap.isPlaying
    /\ IF ap.repeat = "one"
       THEN ap' = play([ap EXCEPT !.late = FALSE, !.stopped = FALSE])
       ELSE ap' \in nextBegins
    /\ UNCHANGED <<transposeVars, kt, an, nm, pl, gd, tp>>

\* setShuffle(enabled)
setShuffle(enabled) ==
    /\ ap.shuffle # enabled
    /\ ap' = [ap EXCEPT !.shuffle = enabled]
    /\ UNCHANGED <<transposeVars, kt, an, nm, pl, gd, tp>>

\* setRepeat(mode)
setRepeat(mode) ==
    /\ ap.repeat # mode
    /\ ap' = [ap EXCEPT !.repeat = mode]
    /\ UNCHANGED <<transposeVars, kt, an, nm, pl, gd, tp>>

\* playSong(song)
playSong(song) ==
    /\ CanSuspend
    /\ ap' = loadSongBegins([ap EXCEPT !.stopped = FALSE], "playSong", song)
    /\ UNCHANGED <<transposeVars, kt, an, nm, pl, gd, tp>>

\* playPlaylist(playlist) up to its await of getPlaylistSongs.
playPlaylist ==
    /\ CanSuspend
    /\ ap' = [ap EXCEPT !.calls = Suspend(@, Fetching), !.stopped = FALSE]
    /\ UNCHANGED <<transposeVars, kt, an, nm, pl, gd, tp>>

\* getPlaylistSongs resolved inside playPlaylist: with songs it goes on to
\* setPlaylist(songs), which suspends in loadSong; without, it returns.
PlaylistSongsResolved ==
    /\ BagIn(Fetching, ap.calls)
    /\ \E songs \in SongLists :
          LET p == [ap EXCEPT !.calls = Resume(@, Fetching)]
          IN ap' = IF Len(songs) > 0
                   THEN loadSongBegins([p EXCEPT !.playlist = songs, !.currentIndex = 0],
                                       "playPlaylist", SongAt(songs, 0))
                   ELSE p
    /\ UNCHANGED <<transposeVars, kt, an, nm, pl, gd, tp>>

\* What the caller of loadSong does once loadSong returned: setPlaylist
\* returns, the others call play().
afterLoadSong(p, op) == IF op = "setPlaylist" THEN p ELSE play(p)

\* The storage service answered loadSong: audio.src is set to the song's
\* blob or stream URL, audio.load() is called, and the caller goes on.
LoadSongResolved(call) ==
    /\ BagIn(call, ap.calls) /\ call.pc = "loading"
    /\ ap' = afterLoadSong([ap EXCEPT !.src = call.song, !.late = FALSE,
                                      !.calls = Resume(@, call)], call.op)
    /\ UNCHANGED <<transposeVars, kt, an, nm, pl, gd, tp>>

\* The storage service failed: loadSong catches, returns false, and the
\* caller goes on all the same.
LoadSongRejected(call) ==
    /\ BagIn(call, ap.calls) /\ call.pc = "loading"
    /\ ap' = afterLoadSong([ap EXCEPT !.calls = Resume(@, call)], call.op)
    /\ UNCHANGED <<transposeVars, kt, an, nm, pl, gd, tp>>

\* The 'timeupdate' event that takes currentTime beyond 3 seconds.
TimeUpdate ==
    /\ ap.isPlaying /\ ~ap.late
    /\ ap' = [ap EXCEPT !.late = TRUE]
    /\ UNCHANGED <<transposeVars, kt, an, nm, pl, gd, tp>>

\* stop(): pause(), seek(0), no song, an empty playlist. Calls in flight
\* are left as they are.
stop ==
    /\ ~ap.stopped
    /\ ap' = [ap EXCEPT !.isPlaying = FALSE, !.late = FALSE, !.currentSong = None,
                        !.playlist = <<>>, !.currentIndex = 0, !.stopped = TRUE]
    /\ UNCHANGED <<transposeVars, kt, an, nm, pl, gd, tp>>

PlayerOps == {"setPlaylist", "next", "previous", "playSong", "playPlaylist"}
LoadingCalls == {Loading(op, song) : op \in PlayerOps, song \in Songs}

PlayerNext ==
    \/ \E songs \in SongLists, i \in StartIndexes : setPlaylist(songs, i)
    \/ next
    \/ previous
    \/ handleSongEnd
    \/ \E b \in BOOLEAN : setShuffle(b)
    \/ \E m \in RepeatModes : setRepeat(m)
    \/ \E song \in Songs : playSong(song)
    \/ playPlaylist
    \/ PlaylistSongsResolved
    \/ \E call \in LoadingCalls : LoadSongResolved(call)
    \/ \E call \in LoadingCalls : LoadSongRejected(call)
    \/ TimeUpdate
    \/ stop

PlayerSpec == PlayerInit /\ [][PlayerNext]_vars

\* -------------------------------------------------------- playlist store

PlaylistInit ==
    /\ TransposeInit
    /\ kt = KtIdle /\ an = AnIdle /\ nm = NmIdle
    /\ ap = ApIdle /\ gd = GdIdle /\ tp = TpIdle
    /\ pl = PlIdle

\* playlist.songs.includes(songId)
Includes(songs, songId) == \E i \in 1..Len(songs) : songs[i] = songId

\* addSongToPlaylist(playlistId, songId) or removeSongFromPlaylist(playlistId,
\* songId) is called and waits for getPlaylist.
EditCalled(e, op, songId) ==
    /\ pl.calls[e].pc = "idle"
    /\ pl' = [pl EXCEPT !.calls[e] = [EditIdle EXCEPT !.op = op, !.pc = "getPlaylist",
                                                     !.songId = songId]]
    /\ UNCHANGED <<transposeVars, kt, an, nm, ap, gd, tp>>

\* getPlaylist resolved with the stored playlist; an add of a song it lists
\* throws 'Song already in playlist', otherwise the call waits for the song.
GetPlaylistResolved(e) ==
    /\ pl.calls[e].pc = "getPlaylist"
    /\ pl' = IF pl.calls[e].op = "add" /\ Includes(pl.stored.songs, pl.calls[e].songId)
             THEN [pl EXCEPT !.calls[e].pc = "rejected"]
             ELSE [pl EXCEPT !.calls[e].pc = "getAudioFile",
                             !.calls[e].songs = pl.stored.songs]
    /\ UNCHANGED <<transposeVars, kt, an, nm, ap, gd, tp>>

\* getAudioFile resolved: updatedSongs is computed from the playlist read
\* before, and updatePlaylist is called, which waits for its own getPlaylist.
GetAudioFileResolved(e) ==
    /\ pl.calls[e].pc = "getAudioFile"
    /\ LET read == pl.calls[e].songs
           updatedSongs == IF pl.calls[e].op = "add"
                           THEN Append(read, pl.calls[e].songId)
                           ELSE SelectSeq(read, LAMBDA id : id # pl.calls[e].songId)
       IN pl' = [pl EXCEPT !.calls[e].pc = "updatePlaylist",
                           !.calls[e].songs = updatedSongs]
    /\ UNCHANGED <<transposeVars, kt, an, nm, ap, gd, tp>>

\* updatePlaylist read the stored playlist again and spread the updates over
\* it; the put is issued.
UpdateGetPlaylistResolved(e) ==
    /\ pl.calls[e].pc = "updatePlaylist"
    /\ pl' = [pl EXCEPT !.calls[e].pc = "put",
                        !.calls[e].put =
                            Some([pl.stored EXCEPT !.songs = pl.calls[e].songs,
                                                   !.songCount = Len(pl.calls[e].songs)])]
    /\ UNCHANGED <<transposeVars, kt, an, nm, ap, gd, tp>>

\* store.put succeeded: the playlist is replaced and the call resolves.
PutSucceeded(e) ==
    /\ pl.calls[e].pc = "put"
    /\ pl' = [pl EXCEPT !.stored = pl.calls[e].put[1], !.calls[e].pc = "resolved"]
    /\ UNCHANGED <<transposeVars, kt, an, nm, ap, gd, tp>>

\* store.put failed: the call rejects and the store is as it was.
PutFailed(e) ==
    /\ pl.calls[e].pc = "put"
    /\ pl' = [pl EXCEPT !.calls[e].pc = "rejected"]
    /\ UNCHANGED <<transposeVars, kt, an, nm, ap, gd, tp>>

PlaylistNext ==
    \E e \in Edits :
        \/ \E op \in {"add", "remove"}, songId \in Songs : EditCalled(e, op, songId)
        \/ GetPlaylistResolved(e)
        \/ GetAudioFileResolved(e)
        \/ UpdateGetPlaylistResolved(e)
        \/ PutSucceeded(e)
        \/ PutFailed(e)

PlaylistSpec == PlaylistInit /\ [][PlaylistNext]_vars

\* ----------------------------------------------------------- Google Drive

DriveInit ==
    /\ TransposeInit
    /\ kt = KtIdle /\ an = AnIdle /\ nm = NmIdle
    /\ ap = ApIdle /\ pl = PlIdle /\ tp = TpIdle
    /\ gd = GdIdle

\* The routes that read the user's Drive, and those of them that require an
\* argument (fileId, q) before they call the service.
DriveRoutes == {"files", "file-info", "download", "search"}
ArgRoutes == {"download", "search"}

\* The 400 of a route called without its argument.
ArgError(route) ==
    IF route = "download" THEN "File ID is required" ELSE "Search term is required"

\* An answer: servedWith names the client whose tokens the Drive call ran
\* with, None when no Drive call was made.
Answer(route, status, error, servedWith) ==
    [route |-> route, status |-> status, error |-> error, servedWith |-> servedWith]

\* POST /set-tokens: 400 without tokens.access_token, otherwise
\* driveService.setTokens(tokens) on the shared instance.
SetTokens(c, valid) ==
    /\ gd' = IF ~valid
             THEN [gd EXCEPT !.last[c] =
                      Some(Answer("set-tokens", 400, "Valid tokens are required", None))]
             ELSE [gd EXCEPT !.auth = Some(c),
                             !.supplied = @ \cup {c},
                             !.last[c] = Some(Answer("set-tokens", 200, "", None))]
    /\ UNCHANGED <<transposeVars, kt, an, nm, ap, pl, tp>>

\* POST /auth-callback: 400 without a code, otherwise getTokensFromCode
\* waits for oauth2Client.getToken(code).
AuthCallback(c, hasCode) ==
    /\ c \notin gd.exchanging
    /\ gd' = IF ~hasCode
             THEN [gd EXCEPT !.last[c] =
                      Some(Answer("auth-callback", 400, "Authorization code is required", None))]
             ELSE [gd EXCEPT !.exchanging = @ \cup {c}]
    /\ UNCHANGED <<transposeVars, kt, an, nm, ap, pl, tp>>

\* getToken resolved: the shared instance's auth and drive are replaced by
\* a client with c's tokens, and the tokens are answered.
GetTokenResolved(c) ==
    /\ c \in gd.exchanging
    /\ gd' = [gd EXCEPT !.exchanging = @ \ {c},
                        !.auth = Some(c),
                        !.supplied = @ \cup {c},
                        !.last[c] = Some(Answer("auth-callback", 200, "", None))]
    /\ UNCHANGED <<transposeVars, kt, an, nm, ap, pl, tp>>

\* getToken rejected: 500, the shared instance is as it was.
GetTokenRejected(c) ==
    /\ c \in gd.exchanging
    /\ gd' = [gd EXCEPT !.exchanging = @ \ {c},
                        !.last[c] = Some(Answer("auth-callback", 500,
                                                "Failed to exchange authorization code", None))]
    /\ UNCHANGED <<transposeVars, kt, an, nm, ap, pl, tp>>

\* GET /files, GET /file-info/:fileId, POST /download, GET /search: 400
\* when the route's argument is missing; 401 when the shared instance has
\* no drive; otherwise the Drive call runs with the installed tokens.
DriveRequest(c, route, hasArg) ==
    /\ gd' = [gd EXCEPT !.last[c] =
                IF route \in ArgRoutes /\ ~hasArg
                THEN Some(Answer(route, 400, ArgError(route), None))
                ELSE IF gd.auth = None
                THEN Some(Answer(route, 401, "Not authenticated with Google Drive", None))
                ELSE Some(Answer(route, 200, "", gd.auth))]
    /\ UNCHANGED <<transposeVars, kt, an, nm, ap, pl, tp>>

\* The Drive call of a route failed: 500 with the service's message.
DriveRequestFailed(c, route) ==
    /\ gd.auth # None
    /\ gd' = [gd EXCEPT !.last[c] = Some(Answer(route, 500, "Failed", gd.auth))]
    /\ UNCHANGED <<transposeVars, kt, an, nm, ap, pl, tp>>

DriveNext ==
    \E c \in Clients :
        \/ \E valid \in BOOLEAN : SetTokens(c, valid)
        \/ \E hasCode \in BOOLEAN : AuthCallback(c, hasCode)
        \/ GetTokenResolved(c)
        \/ GetTokenRejected(c)
        \/ \E route \in DriveRoutes, hasArg \in BOOLEAN : DriveRequest(c, route, hasArg)
        \/ \E route \in DriveRoutes : DriveRequestFailed(c, route)

DriveSpec == DriveInit /\ [][DriveNext]_vars

\* ================================================================ claims

Sent(r) == res[r] # NoResponse
Status(r) == res[r][1].status
ErrorOf(r) == res[r][1].error

\* The request's shift is a number other than 0 (so ffmpeg runs for it).
NonzeroShift(r) == body[r].semitones.t = "number" /\ body[r].semitones.v # 0
ZeroShift(r) == JsStrictZero(body[r].semitones)

\* This step is the one in which r's shift resolves.
ShiftCompletes(r) == pc[r] = "Shifting" /\ pc'[r] = "Probing"

MissingInput(b) == ~Truthy(b.filename)
InvalidShiftRange(b) ==
    b.semitones.t = "number" /\ (b.semitones.v < -12 \/ b.semitones.v > 12)

\* C1: a received request whose filename is missing, or whose semitones is a
\* number outside [-12, 12], has been answered 400 with the matching error
\* (filename first), and has issued no external operation: no fs.access, no
\* copy, no ffmpeg, no probe; no output path was produced; and while every
\* received request is of that kind the uploads directory is as it was.
C1_RejectedBeforeProcessing ==
    /\ \A r \in Reqs :
        (pc[r] # "Idle" /\ (MissingInput(body[r]) \/ InvalidShiftRange(body[r]))) =>
            /\ pc[r] = "Failed"
            /\ Sent(r) /\ Status(r) = 400
            /\ ErrorOf(r) = (IF MissingInput(body[r]) THEN "Filename is required"
                             ELSE "Semitones must be between -12 and +12")
            /\ io[r] = <<>>
            /\ proc[r] = "none"
            /\ transposedPath[r] = None
    /\ (\A r \in Reqs : pc[r] = "Idle" \/ MissingInput(body[r]) \/ InvalidShiftRange(body[r]))
           => uploads = InitialUploads

\* A request for a stored file with semitones 13, and one with -13, were rejected.
C1_Witness ==
    /\ pc[1] = "Failed" /\ body[1].filename = Some("a.mp3")
    /\ body[1].semitones \in {JsNum(13), JsNum(-13)}
    /\ Status(1) = 400 /\ io[1] = <<>> /\ uploads = InitialUploads

\* C2: when a nonzero shift completes, the rate given to asetrate was the
\* input's own sample rate times pitchRatio, and the duration of the written
\* output equals the duration of the input.
C2_TempoPreserved ==
    [][\A r \in Reqs :
        (ShiftCompletes(r) /\ NonzeroShift(r)) =>
            LET in == uploads[inputName(r)]
                n == body[r].semitones.v
            IN /\ Asetrate(in, n) = FracMul(FracInt(in.sampleRate), pitchRatio(n))
               /\ Reduce(uploads'[outputName(r)].dur) = Reduce(in.dur)]_vars

\* C3: once a shift has failed with 'Audio processing failed', no file exists
\* at the output path the failed call was writing.
C3_NoPartialOutputAfterFailure ==
    \A r \in Reqs :
        (Sent(r) /\ Status(r) = 500 /\ ErrorOf(r) = "Audio processing failed") =>
            outputName(r) \notin DOMAIN uploads

\* C4: a request whose shift the client cancelled (its timeout fired) ends
\* with a Cancelled error, distinct from the processing failure, with its
\* ffmpeg process terminated and no file at its output path.
C4_CancelledShiftLeavesNothing ==
    \A r \in Reqs :
        (aborted[r] /\ pc[r] \in {"Done", "Failed"}) =>
            /\ proc[r] \notin {"running", "writing"}
            /\ outputName(r) \notin DOMAIN uploads
            /\ Status(r) # 200 /\ ErrorOf(r) = "Cancelled"

\* C5: two requests whose shifts are in progress at the same time write to
\* different output paths.
C5_DistinctOutputPaths ==
    \A r1, r2 \in Reqs :
        (r1 # r2 /\ pc[r1] = "Shifting" /\ pc[r2] = "Shifting") =>
            outputName(r1) # outputName(r2)

\* C6: when a shift of 0 completes, the output is another file than the input,
\* its bytes are the input's bytes, nothing was encoded (no ffmpeg ran, the
\* codec is the input's), and what a probe reads from the output is what a
\* probe reads from the input.
C6_ZeroShiftIsCopy ==
    [][\A r \in Reqs :
        (ShiftCompletes(r) /\ ZeroShift(r)) =>
            /\ outputName(r) # inputName(r)
            /\ outputName(r) \in DOMAIN uploads'
            /\ uploads'[outputName(r)].bytes = uploads[inputName(r)].bytes
            /\ uploads'[inputName(r)] = uploads[inputName(r)]
            /\ proc'[r] = "none" /\ io'[r] = <<"access", "copyFile", "ffprobe">>
            /\ Probe(uploads'[outputName(r)]) = Probe(uploads'[inputName(r)])]_vars

\* A zero shift of the mono 48 kHz WAV file has completed and its copy is stored.
C6_Witness ==
    /\ pc[1] = "Probing" /\ body[1].semitones = JsNum(0)
    /\ body[1].filename = Some("b.wav")
    /\ "transposed_down_0_b.wav" \in DOMAIN uploads
    /\ uploads["transposed_down_0_b.wav"] = FileB

\* C7 (as claimed): when a shift completes, the output's sample rate and
\* channel count equal the input's.
C7_RateAndChannelsKept ==
    [][\A r \in Reqs :
        ShiftCompletes(r) =>
            /\ uploads'[outputName(r)].sampleRate = uploads[inputName(r)].sampleRate
            /\ uploads'[outputName(r)].channels = uploads[inputName(r)].channels]_vars

\* C7 (amended): when a shift of 0 completes, the output's sample rate and
\* channel count equal the input's; when any other shift completes they are
\* 44100 Hz and 2 channels whatever the input's were.
C7_RateAndChannelsKeptOrNormalized ==
    [][\A r \in Reqs :
        ShiftCompletes(r) =>
            LET out == uploads'[outputName(r)]
                in == uploads[inputName(r)]
            IN IF ZeroShift(r)
               THEN out.sampleRate = in.sampleRate /\ out.channels = in.channels
               ELSE out.sampleRate = 44100 /\ out.channels = 2]_vars

\* A nonzero shift of the mono 48 kHz file has completed with a stereo
\* 44.1 kHz output, and so has a zero shift of a file, with the input's values.
C7_Witness ==
    /\ pc[1] = "Probing" /\ NonzeroShift(1) /\ body[1].filename = Some("b.wav")
    /\ uploads[outputName(1)].channels = 2 /\ uploads[outputName(1)].sampleRate = 44100
    /\ pc[2] = "Probing" /\ ZeroShift(2)
    /\ uploads[outputName(2)].sampleRate = uploads[inputName(2)].sampleRate

\* C8: when a nonzero shift completes, whatever the input's codec, sample
\* rate, channel count and bitrate, the output written is MP3 at 44100 Hz,
\* 2 channels, 128 kbps.
C8_NormalizedOutput ==
    [][\A r \in Reqs :
        (ShiftCompletes(r) /\ NonzeroShift(r)) =>
            LET out == uploads'[outputName(r)]
            IN /\ out.kind = "audio"
               /\ out.codec = "mp3"
               /\ out.sampleRate = 44100
               /\ out.channels = 2
               /\ out.bitrate = 128000]_vars

\* The 48 kHz mono PCM file was shifted by -12 and the output probed by the
\* request reads MP3, 44100 Hz, stereo, 128 kbps.
C8_Witness ==
    /\ pc[1] = "Done" /\ body[1].semitones = JsNum(-12)
    /\ body[1].filename = Some("b.wav")
    /\ res[1][1].metadata[1].codec = "mp3"
    /\ res[1][1].metadata[1].sampleRate = 44100
    /\ res[1][1].metadata[1].channels = 2
    /\ res[1][1].metadata[1].bitrate = 128000

\* The steps of the per-request state machine. A request that is received
\* and fails validation in the same turn goes from Idle to Failed.
StepEdges ==
    {<<"Idle", "Validating">>, <<"Idle", "Failed">>,
     <<"Validating", "Shifting">>, <<"Validating", "Failed">>,
     <<"Shifting", "Probing">>, <<"Shifting", "Failed">>,
     <<"Probing", "KeyMapping">>, <<"Probing", "Done">>, <<"Probing", "Failed">>,
     <<"KeyMapping", "Done">>, <<"KeyMapping", "Failed">>}

\* C9: every request moves only along Validating, Shifting, Probing, optional
\* KeyMapping, Done, or from one of these steps to Failed. The shift is
\* started only by the step that leaves Validating, the probe only by the
\* step in which the shift succeeded, key mapping is entered only with the
\* probe's metadata. An error response leaves the request Failed, and a
\* request that is Done or Failed does nothing more.
C9_StepOrder ==
    [][\A r \in Reqs :
        /\ pc'[r] # pc[r] => <<pc[r], pc'[r]>> \in StepEdges
        /\ io'[r] # io[r] =>
            \/ pc[r] = "Idle" /\ pc'[r] = "Validating" /\ io'[r] = <<"access">>
            \/ /\ pc[r] = "Validating" /\ pc'[r] = "Shifting"
               /\ \E op \in {"copyFile", "ffmpeg"} : io'[r] = <<"access", op>>
            \/ /\ pc[r] = "Shifting" /\ pc'[r] = "Probing"
               /\ \E op \in {"copyFile", "ffmpeg"} : io'[r] = <<"access", op, "ffprobe">>
        /\ pc'[r] = "Shifting" => ~Sent(r) /\ ValidationError(body'[r]) = ""
        /\ pc'[r] = "Probing" => transposedPath'[r] # None
        /\ pc'[r] = "KeyMapping" => transposedPath'[r] # None /\ metadata'[r] # None
        /\ (res'[r] # NoResponse /\ res'[r][1].status # 200) => pc'[r] = "Failed"
        /\ (res'[r] # NoResponse /\ res'[r][1].status = 200) => pc'[r] = "Done"
        /\ pc[r] \in {"Done", "Failed"} =>
            /\ pc'[r] = pc[r] /\ io'[r] = io[r] /\ res'[r] = res[r]
            /\ proc'[r] = proc[r] /\ transposedPath'[r] = transposedPath[r]
            /\ metadata'[r] = metadata[r]]_vars

\* One request went through all five steps, another failed in its shift
\* with no probe issued.
C9_Witness ==
    /\ pc[1] = "Done" /\ res[1][1].keyInfo # None
    /\ io[1] = <<"access", "ffmpeg", "ffprobe">>
    /\ pc[2] = "Failed" /\ io[2] = <<"access", "ffmpeg">>

\* C10: a success response is sent only by a request whose shift resolved
\* and whose probe resolved, and it carries that output file and that
\* metadata; a request whose probe was rejected after its shift resolved
\* has answered with an error.
C10_SuccessHasFileAndMetadata ==
    \A r \in Reqs :
        /\ (Sent(r) /\ Status(r) = 200) =>
            /\ transposedPath[r] # None /\ metadata[r] # None
            /\ res[r][1].transposedFile = transposedPath[r]
            /\ res[r][1].metadata = metadata[r]
            /\ io[r][Len(io[r])] = "ffprobe"
        /\ (pc[r] \in {"Done", "Failed"} /\ (transposedPath[r] = None \/ metadata[r] = None)) =>
            /\ Sent(r) /\ Status(r) # 200
            /\ res[r][1].transposedFile = None /\ res[r][1].metadata = None

\* A zero shift of the stored non-audio file succeeded, the probe of the
\* copy was rejected, and the request answered 500.
C10_Witness ==
    /\ pc[1] = "Failed" /\ transposedPath[1] # None /\ metadata[1] = None
    /\ Status(1) = 500 /\ ErrorOf(1) = "Failed to read audio metadata"
    /\ pc[2] = "Done" /\ Status(2) = 200

\* This step is the one in which r's key mapping ends.
KeyMappingEnds(r) == pc[r] = "KeyMapping" /\ pc'[r] # "KeyMapping"

\* C11 (as claimed): the key mapping of a request, entered after its shift
\* and its probe succeeded, ends with the request Done and a key transform in
\* the success response, whatever key and mode the caller supplied.
C11_KeyMappingNeverFails ==
    [][\A r \in Reqs :
        KeyMappingEnds(r) =>
            /\ pc'[r] = "Done"
            /\ res'[r][1].status = 200 /\ res'[r][1].keyInfo # None]_vars

\* C11 (amended): the key mapping ends with the request Done and a key
\* transform in the success response when the supplied key is one of the 17
\* names of the note tables; for any other key it ends with the request
\* Failed, answered 500 'Invalid key', the output file already written.
C11_KeyMappingSucceedsForTableKeys ==
    [][\A r \in Reqs :
        KeyMappingEnds(r) =>
            IF body[r].originalKey[1] \in TableKeyNames
            THEN /\ pc'[r] = "Done"
                 /\ res'[r][1].status = 200 /\ res'[r][1].keyInfo # None
            ELSE /\ pc'[r] = "Failed"
                 /\ res'[r][1].status = 500 /\ res'[r][1].error = "Invalid key"
                 /\ res'[r][1].keyInfo = None
                 /\ outputName(r) \in DOMAIN uploads']_vars

\* A request that supplied the flat-spelled key Bb minor is Done with its key
\* transform.
C11_Witness ==
    /\ pc[1] = "Done" /\ body[1].originalKey = Some("Bb") /\ body[1].mode = Some("minor")
    /\ metadata[1] # None /\ res[1][1].keyInfo # None
    /\ res[1][1].keyInfo[1].originalKey = "Bb"


\* The index the normalization ((i + s) % 12 + 12) % 12 gives, % being the
\* remainder that takes the dividend's sign.
NormalizedIndex(i, s) == JsMod(JsMod(i + s, 12) + 12, 12)

\* result is a key transform of key by s to the pitch class of the
\* normalized index, under a defined name.
LandsOnNormalizedIndex(key, s, result) ==
    /\ result # None
    /\ NormalizedIndex(PitchIndex(key), s) \in 0..11
    /\ result[1].newKey # "undefined"
    /\ result[1].newKey \in TableKeyNames
    /\ PitchIndex(result[1].newKey) = NormalizedIndex(PitchIndex(key), s)

\* C12: for every key of the note tables and every shift in [-12, 12], the
\* key the Key Transformer returns is a defined name whose pitch-class index
\* is ((i + s) mod 12 + 12) mod 12, in 0..11, for negative shifts as well;
\* so it is for the second and for the combined application.
C12_IndexNormalized ==
    /\ (kt.stage \in {"first", "second", "direct"} /\ kt.key \in TableKeyNames
            /\ kt.s1 \in ShiftRange)
         => LandsOnNormalizedIndex(kt.key, kt.s1, kt.first)
    /\ (kt.stage \in {"second", "direct"} /\ kt.s1 \in ShiftRange /\ kt.s2 \in ShiftRange)
         => LandsOnNormalizedIndex(kt.first[1].newKey, kt.s2, kt.second)
    /\ (kt.stage = "direct" /\ kt.s1 + kt.s2 \in ShiftRange)
         => LandsOnNormalizedIndex(kt.key, kt.s1 + kt.s2, kt.direct)

\* D shifted by -5 gave A, and A shifted by -12 gave A: both sums are
\* negative before the normalization.
C12_Witness ==
    /\ kt.stage = "second" /\ kt.key = "D" /\ kt.s1 = -5 /\ kt.first[1].newKey = "A"
    /\ kt.s2 = -12 /\ kt.second[1].newKey = "A"

\* C13 (as claimed): a shift of 0 returns the key as it was given, the mode
\* as given and the interval name "Perfect Unison".
C13_ZeroShiftIsIdentity ==
    (kt.stage # "input" /\ kt.first # None /\ kt.s1 = 0) =>
        /\ kt.first[1].newKey = kt.key
        /\ kt.first[1].newMode = kt.mode
        /\ kt.first[1].interval = "Perfect Unison"

\* C13 (amended): a shift of 0 returns the sharp-spelled name of the given
\* key's pitch class (the key itself when it is in the sharp table), the
\* mode as given and the interval name "Perfect Unison".
C13_ZeroShiftKeepsPitchClass ==
    (kt.stage # "input" /\ kt.key \in TableKeyNames /\ kt.s1 = 0) =>
        /\ kt.first # None
        /\ kt.first[1].newKey = notes[PitchIndex(kt.key) + 1]
        /\ PitchIndex(kt.first[1].newKey) = PitchIndex(kt.key)
        /\ IndexOf(notes, kt.key) # -1 => kt.first[1].newKey = kt.key
        /\ kt.first[1].originalKey = kt.key
        /\ kt.first[1].newMode = kt.mode /\ kt.first[1].originalMode = kt.mode
        /\ kt.first[1].interval = "Perfect Unison"

\* Bb minor shifted by 0 came back as A# minor, Perfect Unison.
C13_Witness ==
    /\ kt.stage = "first" /\ kt.key = "Bb" /\ kt.mode = "minor" /\ kt.s1 = 0
    /\ kt.first # None /\ kt.first[1].newKey = "A#" /\ kt.first[1].newMode = "minor"
    /\ kt.first[1].interval = "Perfect Unison"

\* s1, s2 and their sum are all accepted shifts, and all three calls were made.
Composed ==
    /\ kt.stage = "direct" /\ kt.key \in TableKeyNames
    /\ kt.s1 \in ShiftRange /\ kt.s2 \in ShiftRange /\ kt.s1 + kt.s2 \in ShiftRange

\* C14 (as claimed): shifting by s1 and shifting the resulting key by s2
\* returns the same key name and mode as shifting once by s1 + s2.
C14_Composes ==
    Composed =>
        /\ kt.second # None /\ kt.direct # None
        /\ kt.second[1].newKey = kt.direct[1].newKey
        /\ kt.second[1].newMode = kt.direct[1].newMode

\* C14 (amended): shifting by s1 and shifting the resulting key by s2 returns
\* the same pitch class and mode as shifting once by s1 + s2; the key names
\* are equal when s2 and s1 + s2 are both negative or both not.
C14_ComposesOnPitchClass ==
    Composed =>
        /\ kt.second # None /\ kt.direct # None
        /\ PitchIndex(kt.second[1].newKey) = PitchIndex(kt.direct[1].newKey)
        /\ PitchIndex(kt.second[1].newKey) \in 0..11
        /\ kt.second[1].newMode = kt.direct[1].newMode
        /\ ((kt.s2 >= 0) = (kt.s1 + kt.s2 >= 0)) => kt.second[1].newKey = kt.direct[1].newKey

\* C shifted by +3 and then by -2 gave Db; C shifted by +1 gave C#.
C14_Witness ==
    /\ Composed /\ kt.key = "C" /\ kt.s1 = 3 /\ kt.s2 = -2
    /\ kt.first[1].newKey = "D#"
    /\ kt.second[1].newKey = "Db" /\ kt.direct[1].newKey = "C#"

\* C15 (as claimed): for every key of the note tables and shift in [-12, 12]
\* the new key is the sharp-spelled name of the new pitch class and the mode
\* is unchanged; C major +7 is G major, "Perfect Fifth"; A minor -3 is
\* F# minor, "Minor Third (down)".
C15_SharpSpelled ==
    (kt.stage # "input" /\ kt.key \in TableKeyNames /\ kt.s1 \in ShiftRange) =>
        /\ kt.first # None
        /\ kt.first[1].newKey = notes[((PitchIndex(kt.key) + kt.s1) % 12) + 1]
        /\ kt.first[1].newMode = kt.mode
        /\ (kt.key = "C" /\ kt.mode = "major" /\ kt.s1 = 7) =>
              /\ kt.first[1].newKey = "G" /\ kt.first[1].newMode = "major"
              /\ kt.first[1].interval = "Perfect Fifth"
        /\ (kt.key = "A" /\ kt.mode = "minor" /\ kt.s1 = -3) =>
              /\ kt.first[1].newKey = "F#" /\ kt.first[1].newMode = "minor"
              /\ kt.first[1].interval = "Minor Third (down)"

\* C15 (amended): the new key is the name of the new pitch class, taken from
\* the sharp table for a shift of 0 or more and from the flat table for a
\* negative shift, and the mode is unchanged; C major +7 is G major,
\* "Perfect Fifth"; A minor -3 is Gb minor, "Minor Third (down)".
C15_SpelledByDirection ==
    (kt.stage # "input" /\ kt.key \in TableKeyNames /\ kt.s1 \in ShiftRange) =>
        /\ kt.first # None
        /\ kt.first[1].newKey =
              (IF kt.s1 >= 0 THEN notes ELSE flatNotes)[((PitchIndex(kt.key) + kt.s1) % 12) + 1]
        /\ kt.first[1].newMode = kt.mode
        /\ (kt.key = "C" /\ kt.mode = "major" /\ kt.s1 = 7) =>
              /\ kt.first[1].newKey = "G" /\ kt.first[1].newMode = "major"
              /\ kt.first[1].interval = "Perfect Fifth"
        /\ (kt.key = "A" /\ kt.mode = "minor" /\ kt.s1 = -3) =>
              /\ kt.first[1].newKey = "Gb" /\ kt.first[1].newMode = "minor"
              /\ kt.first[1].interval = "Minor Third (down)"

\* A minor shifted by -3 came back as Gb minor, Minor Third (down).
C15_Witness ==
    /\ kt.stage = "first" /\ kt.key = "A" /\ kt.mode = "minor" /\ kt.s1 = -3
    /\ kt.first # None /\ kt.first[1].newKey = "Gb"
    /\ kt.first[1].interval = "Minor Third (down)"

\* The 12 sharp-spelled pitch-class names.
SharpNames == {"C", "C#", "D", "D#", "E", "F", "F#", "G", "G#", "A", "A#", "B"}

\* C16 (as claimed): every key estimate detectKey produced has a pitch class
\* among the 12 sharp-spelled names, a mode of major or minor, and the
\* confidence 0.75.
C16_EstimateSharpSpelled ==
    an.keyInfo # None =>
        /\ an.keyInfo[1].key \in SharpNames
        /\ an.keyInfo[1].mode \in {"major", "minor"}
        /\ an.keyInfo[1].confidence = <<3, 4>>

\* C16 (amended): every key estimate detectKey produced has a key among the
\* 12 names C, G, D, A, E, B, F#, F, Bb, Eb, Ab, Db (four of them flat
\* spellings), which name 12 different pitch classes the Key Transformer
\* accepts, a mode of major or minor, and the confidence 0.75.
C16_EstimateFromCommonKeys ==
    /\ an.keyInfo # None =>
        /\ an.keyInfo[1].key \in
              {"C", "G", "D", "A", "E", "B", "F#", "F", "Bb", "Eb", "Ab", "Db"}
        /\ PitchIndex(an.keyInfo[1].key) \in 0..11
        /\ an.keyInfo[1].mode \in {"major", "minor"}
        /\ an.keyInfo[1].confidence = <<3, 4>>
    /\ an.pc \in {"Awaiting", "Done"} => an.keyInfo # None
    /\ Cardinality({PitchIndex(k.key) : k \in detectKey("a.mp3")}) = 12

\* An analysis of a stored file detected Bb minor.
C16_Witness ==
    /\ an.pc = "Done" /\ an.filename = Some("a.mp3")
    /\ an.keyInfo = Some([key |-> "Bb", mode |-> "minor", confidence |-> <<3, 4>>])

\* C17: when the probe of a stored file was rejected (the file cannot be
\* parsed or has no audio track), key detection on that file failed too and
\* produced no key estimate.
C17_DetectKeyFailsWithProbe ==
    an.probe = "rejected" => an.keyInfo = None

\* The entry of the table at position j (1-based): -12..-1, then 1..12.
ExpectedSemitones(j) == IF j <= 12 THEN j - 13 ELSE j - 12

\* C20: a successful analyze response carries a table of exactly 24 entries
\* whose semitone values are -12..12 without 0 in ascending order, and each
\* entry's new key is the newKey calculateNewKey returns for the detected key
\* and mode at that value (and its interval the name of that value).
C20_TranspositionTable ==
    (an.pc = "Done") =>
        LET t == an.res[1].supportedTranspositions
            k == an.res[1].keyInfo[1]
        IN /\ an.res[1].status = 200
           /\ an.res[1].keyInfo = an.keyInfo
           /\ Len(t) = 24
           /\ \A j \in 1..Len(t) : t[j].semitones = ExpectedSemitones(j)
           /\ \A j \in 1..(Len(t) - 1) : t[j].semitones < t[j + 1].semitones
           /\ \A j \in 1..Len(t) : t[j].semitones \in ShiftRange \ {0}
           /\ \A j \in 1..Len(t) :
                 /\ calculateNewKey(k.key, k.mode, t[j].semitones) # None
                 /\ t[j].newKey = calculateNewKey(k.key, k.mode, t[j].semitones)[1].newKey
                 /\ t[j].newKey \in TableKeyNames
                 /\ t[j].interval = getIntervalName(t[j].semitones)

\* An analysis that detected Eb major answered with the table: Eb at -12,
\* D at -1, E at +1, D# at +12.
C20_Witness ==
    /\ an.pc = "Done" /\ an.keyInfo[1].key = "Eb" /\ an.keyInfo[1].mode = "major"
    /\ Len(an.res[1].supportedTranspositions) = 24
    /\ an.res[1].supportedTranspositions[1].newKey = "Eb"
    /\ an.res[1].supportedTranspositions[12].newKey = "D"
    /\ an.res[1].supportedTranspositions[13].newKey = "E"
    /\ an.res[1].supportedTranspositions[24].newKey = "D#"

\* The caller supplied a key and its mode, neither of them empty.
KeySupplied(r) == Truthy(body[r].originalKey) /\ Truthy(body[r].mode)

\* C18: a success response carries a key transform exactly when the caller
\* supplied a key with its mode, and then its originalKey and originalMode
\* are the supplied ones, newKey is a key name, newMode the supplied mode and
\* the interval name is set; a request that supplied none never enters the
\* key mapping.
C18_KeyTransformIffKeySupplied ==
    \A r \in Reqs :
        /\ pc[r] = "KeyMapping" => KeySupplied(r)
        /\ (Sent(r) /\ Status(r) = 200) =>
            /\ res[r][1].keyInfo # None <=> KeySupplied(r)
            /\ res[r][1].keyInfo # None =>
                LET k == res[r][1].keyInfo[1]
                IN /\ k.originalKey = body[r].originalKey[1]
                   /\ k.originalKey \in TableKeyNames
                   /\ k.originalMode = body[r].mode[1]
                   /\ k.newKey \in TableKeyNames
                   /\ k.newMode = body[r].mode[1]
                   /\ k.interval # ""

\* A request that supplied C major is Done with a key transform; one that
\* supplied no key is Done without.
C18_Witness ==
    /\ pc[1] = "Done" /\ body[1].originalKey = Some("C") /\ body[1].mode = Some("major")
    /\ res[1][1].keyInfo # None /\ res[1][1].keyInfo[1].newMode = "major"
    /\ pc[2] = "Done" /\ body[2].originalKey = None /\ res[2][1].keyInfo = None

\* C19: for every received request with a filename the output path is
\* another path than the input path, and every file stored before the
\* requests is in the uploads directory with its content unchanged.
C19_InputUntouched ==
    /\ \A r \in Reqs :
          (pc[r] # "Idle" /\ Truthy(body[r].filename)) => outputName(r) # inputName(r)
    /\ \A n \in DOMAIN InitialUploads :
          n \in DOMAIN uploads /\ uploads[n] = InitialUploads[n]

\* The generic interval text for n semitones.
GenericIntervalName(n) ==
    ToString(Abs(n)) \o " semitones " \o (IF n > 0 THEN "up" ELSE "down")

\* name is what the interval lookup owes for n: inside -12..12 a table name,
\* which is not a generic text, not empty, and other than the name of the
\* opposite shift; outside the generic text for n.
IntervalNameOk(n, name) ==
    IF n \in ShiftRange
    THEN /\ name \notin {GenericIntervalName(m) : m \in ShiftInputs}
         /\ name \notin {"", "undefined"}
         /\ n # 0 => name # getIntervalName(-n)
    ELSE name = GenericIntervalName(n)

\* C21: every interval name a key transform carries is the table entry of
\* its shift when the shift is in -12..12 and the generic "N semitones
\* up/down" text otherwise, never an error; the 25 values -12..12 have 25
\* different names.
C21_IntervalNamesTotalAndDistinct ==
    /\ (kt.stage # "input" /\ kt.first # None) =>
          IntervalNameOk(kt.s1, kt.first[1].interval)
    /\ (kt.stage \in {"second", "direct"} /\ kt.second # None) =>
          IntervalNameOk(kt.s2, kt.second[1].interval)
    /\ Cardinality({getIntervalName(n) : n \in ShiftRange}) = Cardinality(ShiftRange)
    /\ Cardinality(ShiftRange) = 25

\* A shift of 13 was named "13 semitones up" and a following shift of -7
\* "Perfect Fifth (down)".
C21_Witness ==
    /\ kt.stage = "second" /\ kt.s1 = 13 /\ kt.first[1].interval = "13 semitones up"
    /\ kt.s2 = -7 /\ kt.second # None
    /\ kt.second[1].interval = "Perfect Fifth (down)"

\* The shift attempts request r has made: fs.copyFile calls and ffmpeg runs.
ShiftAttempts(r) == Len(SelectSeq(io[r], LAMBDA op : op \in {"copyFile", "ffmpeg"}))

\* C22: a request makes at most one shift attempt; it has made exactly one
\* once it is past validation and the file check, whether that attempt is in
\* progress, succeeded or failed, and a request whose shift failed is Failed
\* with that one attempt and no probe.
C22_OneShiftAttempt ==
    \A r \in Reqs :
        /\ ShiftAttempts(r) <= 1
        /\ pc[r] \in {"Shifting", "Probing", "KeyMapping", "Done"} => ShiftAttempts(r) = 1
        /\ transposedPath[r] # None => ShiftAttempts(r) = 1
        /\ (Sent(r) /\ ErrorOf(r) \in {"Audio processing failed", "ENOENT"}) =>
              /\ pc[r] = "Failed" /\ ShiftAttempts(r) = 1
              /\ io[r][Len(io[r])] \in {"copyFile", "ffmpeg"}
              /\ proc[r] \in {"none", "exited"}

\* One request's ffmpeg run failed and it is Failed after that single run;
\* another request's single run succeeded.
C22_Witness ==
    /\ pc[1] = "Failed" /\ ErrorOf(1) = "Audio processing failed"
    /\ ShiftAttempts(1) = 1 /\ proc[1] = "exited"
    /\ pc[2] = "Done" /\ ShiftAttempts(2) = 1 /\ proc[2] = "exited"

\* C23: two requests with integer shifts in [-12, 12], both for stored
\* files, that differ in file name or in shift are given different output
\* paths.
C23_OutputPathsCollisionFree ==
    (/\ nm.stage = "derived"
     /\ pathJoin(Segments(nm.f1)) \in DOMAIN InitialUploads
     /\ pathJoin(Segments(nm.f2)) \in DOMAIN InitialUploads
     /\ (nm.f1 # nm.f2 \/ nm.s1 # nm.s2))
        => nm.out1 # nm.out2

\* C24: a request that issued any operation (it passed validation) carries
\* an integer shift in [-12, 12], and a received request whose semitones is
\* null or a non-numeric string has been answered 400 having issued no
\* operation, with no file at its output path.
C24_ValidatedShiftIsInteger ==
    \A r \in Reqs :
        /\ io[r] # <<>> =>
              body[r].semitones.t = "number" /\ body[r].semitones.v \in ShiftRange
        /\ (pc[r] # "Idle" /\ body[r].semitones.t \in {"null", "string"}) =>
              /\ pc[r] = "Failed" /\ Status(r) = 400 /\ io[r] = <<>>
              /\ Truthy(body[r].filename) => outputName(r) \notin DOMAIN uploads

\* C25: every key detectKey produced is accepted by calculateNewKey for each
\* of the 24 non-zero shifts, with a new key that is a name of the note
\* tables; no analyze request is answered 'Invalid key', and one whose probe
\* resolved is answered 200 with the table.
C25_TableNeverThrows ==
    /\ an.keyInfo # None =>
          \A n \in ShiftRange \ {0} :
              /\ calculateNewKey(an.keyInfo[1].key, an.keyInfo[1].mode, n) # None
              /\ calculateNewKey(an.keyInfo[1].key, an.keyInfo[1].mode, n)[1].newKey
                    \in TableKeyNames
    /\ an.res # None => an.res[1].error # "Invalid key"
    /\ an.probe = "resolved" =>
          /\ an.pc = "Done" /\ an.res[1].status = 200
          /\ Len(an.res[1].supportedTranspositions) = Cardinality(ShiftRange \ {0})

\* An analysis of the 48 kHz file detected the flat-spelled Db minor and
\* answered 200 with the table.
C25_Witness ==
    /\ an.pc = "Done" /\ an.filename = Some("b.wav")
    /\ an.keyInfo[1].key = "Db" /\ an.keyInfo[1].mode = "minor"
    /\ an.res[1].status = 200
    /\ an.res[1].supportedTranspositions[1].newKey = "Db"
    /\ an.res[1].supportedTranspositions[24].newKey = "C#"

\* C26: for every key detectKey can return and every shift the page sends,
\* the key label stored with the auto-saved file is a key name of the same
\* pitch class as the new key the page shows and the backend reports.
C26_LabelNamesNewKey ==
    (tp.stage = "saved" /\ tp.originalKey # None) =>
        /\ PitchIndex(tp.label[1]) \in 0..11
        /\ PitchIndex(tp.label[1]) = PitchIndex(tp.shown[1])
        /\ PitchIndex(tp.label[1]) = PitchIndex(tp.response[1].newKey)

\* The current index is in bounds: 0 with an empty playlist, otherwise an
\* index of the playlist.
IndexInBounds(p) ==
    IF Len(p.playlist) = 0 THEN p.currentIndex = 0
    ELSE p.currentIndex >= 0 /\ p.currentIndex < Len(p.playlist)

AtLastSong == Len(ap.playlist) > 0 /\ ap.currentIndex = Len(ap.playlist) - 1
AtFirstSong == Len(ap.playlist) > 0 /\ ap.currentIndex = 0

\* C27: every step of the player leaves the current index in bounds; next
\* at the last song and previous at the first song leave the index
\* unchanged unless repeat is 'all', and then wrap around.
C27_IndexInBoundsEndsStay ==
    [][/\ IndexInBounds(ap')
       /\ /\ (next /\ AtLastSong) =>
                  ap'.currentIndex = IF ap.repeat = "all" THEN 0 ELSE ap.currentIndex
          /\ (previous /\ AtFirstSong) =>
                  ap'.currentIndex = IF ap.repeat = "all" THEN Len(ap.playlist) - 1
                                     ELSE ap.currentIndex]_vars

\* C27 (amended): every step of the player leaves the current index in
\* bounds. With shuffle off, next at the last song leaves the index
\* unchanged unless repeat is 'all', and then moves to 0; previous at the
\* first song, no more than 3 seconds into it, leaves the index unchanged
\* unless repeat is 'all', and then moves to the last index. More than 3
\* seconds into a song previous leaves the index unchanged whatever repeat
\* and shuffle are. With shuffle on, next and previous move to any index of
\* the playlist.
C27_IndexInBoundsEndsStayShuffleOff ==
    [][/\ IndexInBounds(ap')
       /\ /\ (next /\ AtLastSong /\ ~ap.shuffle) =>
                  ap'.currentIndex = IF ap.repeat = "all" THEN 0 ELSE ap.currentIndex
          /\ (previous /\ AtFirstSong /\ ~ap.shuffle /\ ~ap.late) =>
                  ap'.currentIndex = IF ap.repeat = "all" THEN Len(ap.playlist) - 1
                                     ELSE ap.currentIndex
          /\ (previous /\ ap.late) => ap'.currentIndex = ap.currentIndex
          /\ ((next \/ previous) /\ ap.shuffle) =>
                  ap'.currentIndex \in 0..(Len(ap.playlist) - 1)
                      \/ ap'.currentIndex = ap.currentIndex]_vars

\* With repeat 'all' and shuffle off, a next() call is in flight that moved
\* the index of a full playlist to 0 and is loading the first song.
C27_Witness ==
    /\ ap.repeat = "all" /\ ~ap.shuffle
    /\ Len(ap.playlist) = MaxSongs /\ ap.currentIndex = 0
    /\ BagIn(Loading("next", 1), ap.calls)

\* C28: once stop() has been called, and until a new operation is
\* requested, the player is not playing, has no current song and has an
\* empty playlist, whatever calls were in flight when stop() ran.
C28_StopIsFinal ==
    ap.stopped => /\ ~ap.isPlaying
                  /\ ap.currentSong = None
                  /\ ap.playlist = <<>>

\* C29: when two addSongToPlaylist calls for two different songs have both
\* resolved, and nothing was removed, the stored playlist lists both songs,
\* lists no song twice, and its songCount is the number of songs it lists.
C29_NoLostAdd ==
    \A e \in Edits, f \in Edits :
        (/\ pl.calls[e].op = "add" /\ pl.calls[e].pc = "resolved"
         /\ pl.calls[f].op = "add" /\ pl.calls[f].pc = "resolved"
         /\ pl.calls[e].songId # pl.calls[f].songId
         /\ \A g \in Edits : pl.calls[g].op # "remove") =>
            /\ Includes(pl.stored.songs, pl.calls[e].songId)
            /\ Includes(pl.stored.songs, pl.calls[f].songId)
            /\ \A i \in 1..Len(pl.stored.songs), j \in 1..Len(pl.stored.songs) :
                  pl.stored.songs[i] = pl.stored.songs[j] => i = j
            /\ pl.stored.songCount = Len(pl.stored.songs)

\* C30: every answer a client got from a Drive route was produced with
\* tokens that client installed, and a client that has installed no tokens
\* got 401 'Not authenticated with Google Drive' (or the 400 of a missing
\* argument) from every Drive route, whatever other clients did.
C30_OwnCredentialsOnly ==
    \A c \in Clients :
        (gd.last[c] # None /\ gd.last[c][1].route \in DriveRoutes) =>
            /\ gd.last[c][1].servedWith \in {None, Some(c)}
            /\ c \notin gd.supplied => gd.last[c][1].status \in {400, 401}

====
